---------------------------- MODULE Spec2Model ----------------------------
(***************************************************************************)
(* Intrusive AVL tree (avl.go).  The heap of AvlNode structures is a set   *)
(* of functions over node identities, one per field; a nil pointer is the  *)
(* identity Nil.  Every routine of avl.go is an operator that takes the    *)
(* memory it runs on and returns the memory it leaves, statement by        *)
(* statement; the loops are RECURSIVE operators.                           *)
(***************************************************************************)
EXTENDS Integers, Sequences, FiniteSets, TLC

\* Number of distinct keys held by the caller's records.
NumKeys == 7

\* Number of further records whose key repeats the key of an earlier record.
NumDup == 1

NumNodes == NumKeys + NumDup

Nil == 0

Nodes == 1..NumNodes

Keys == 1..NumKeys

\* Number of records a caller that reuses removed records works with.
NumStale == 4

StaleNodes == 1..NumStale

\* Number of records inserted and removed again in the round trip.
NumRoundTrip == 6

RoundTripNodes == 1..NumRoundTrip

\* Number of records in the tree whose calls are run one loop iteration at a
\* time.
NumRun == 6

RunNodes == 1..NumRun

\* Number of nodes, and of records that own them in turn, of a caller that
\* reuses removed nodes under other owners.
NumReuse == 3

ReuseNodes == 1..NumReuse

\* Number of further records, each with a key of its own, of a caller that
\* builds trees of more than NumKeys records.
NumDeep == 5

DeepNodes == Keys \cup ((NumNodes + 1)..(NumNodes + NumDeep))

VARIABLES left, right, parent, owner, balance, root, linked, panicked, last

vars == <<left, right, parent, owner, balance, root, linked, panicked, last>>

\* The memory the routines work on: the fields of every AvlNode, the tree's
\* root pointer, and whether the routine ended in panic().  trace is the
\* record of what a call did, in order: the rotations it made and the
\* decisions of its ascent.  writes is the record of every assignment the
\* call made to a balance field, in order: <<node, the value assigned, as an
\* integer before its conversion to int8>>.
Mem == [left |-> left, right |-> right, parent |-> parent, owner |-> owner,
        balance |-> balance, root |-> root, panic |-> FALSE, trace |-> <<>>,
        writes |-> <<>>]

\* Appends an event to the record of the call.
Note(m, event) == [m EXCEPT !.trace = Append(@, event)]

\* Appends an assignment to a balance field to the record of the call.
Wrote(m, node, value) == [m EXCEPT !.writes = Append(@, <<node, value>>)]

\* The fields of every node and the root reference, as they are in m.
Fields(m) ==
    [left |-> m.left, right |-> m.right, parent |-> m.parent,
     owner |-> m.owner, balance |-> m.balance, root |-> m.root]

\* Go's conversion of an int to int8.
Int8(x) == ((x + 128) % 256) - 128

\* The key held by the caller's record n (myNode.hash): records beyond NumKeys
\* repeat the keys of the first ones.
Key(n) == IF n <= NumNodes THEN ((n - 1) % NumKeys) + 1 ELSE n

\* cmpNameKey: key against the key of a stored record.
cmpNameKey(key, node) ==
    IF key < Key(node) THEN -1 ELSE IF key > Key(node) THEN 1 ELSE 0

\* cmpNameNode: candidate record against a stored record.
cmpNameNode(node1, node2) ==
    IF Key(node1) < Key(node2) THEN -1
    ELSE IF Key(node1) > Key(node2) THEN 1 ELSE 0

---------------------------------------------------------------------------
\* Linkage primitives

avlGetChild(m, p, sign) == IF sign < 0 THEN m.left[p] ELSE m.right[p]

avlSetChild(m, p, sign, child) ==
    IF sign < 0 THEN [m EXCEPT !.left[p] = child]
    ELSE [m EXCEPT !.right[p] = child]

RECURSIVE FirstOrLastDescend(_, _, _)
FirstOrLastDescend(m, first, sign) ==
    IF avlGetChild(m, first, sign) # Nil
    THEN FirstOrLastDescend(m, avlGetChild(m, first, sign), sign)
    ELSE first

avlTreeFirstOrLastInOrder(m, rt, sign) ==
    IF rt # Nil THEN FirstOrLastDescend(m, rt, sign) ELSE rt

avlGetParent(m, node) == m.parent[node]

avlSetParentBalance(m, node, p, bal) ==
    Wrote([m EXCEPT !.parent[node] = p, !.balance[node] = Int8(bal + 1)],
          node, bal + 1)

avlSetParent(m, node, p) == [m EXCEPT !.parent[node] = p]

avlGetBalanceFactor(m, node) == m.balance[node] - 1

\* node.balance += int8(amount); x is the memory m, named once for the field
\* read and the field written.
avlAdjustBalanceFactor(m, node, amount) ==
    CHOOSE r \in {Wrote([x EXCEPT !.balance[node] = Int8(@ + Int8(amount))],
                        node, x.balance[node] + Int8(amount)) : x \in {m}} :
        TRUE

\* node.balance = value, where value is an int8 or a constant.
avlSetBalance(m, node, value) ==
    Wrote([m EXCEPT !.balance[node] = value], node, value)

avlReplaceChild(m, p, oldChild, newChild) ==
    IF p # Nil
    THEN IF oldChild = m.left[p]
         THEN [m EXCEPT !.left[p] = newChild]
         ELSE [m EXCEPT !.right[p] = newChild]
    ELSE [m EXCEPT !.root = newChild]

\* The in-order sequence of the subtree at n, as the left and right
\* references give it: the left subtree, n, the right subtree; counted to a
\* depth of d at most.
RECURSIVE InOrderFrom(_, _, _)
InOrderFrom(m, n, d) ==
    IF n = Nil \/ d = 0 THEN <<>>
    ELSE InOrderFrom(m, m.left[n], d - 1) \o <<n>>
            \o InOrderFrom(m, m.right[n], d - 1)

InOrderOf(m) == InOrderFrom(m, m.root, NumNodes + 1)

---------------------------------------------------------------------------
\* Rotation engine

\* What avlRotate notes once it is done, mm being the memory it leaves:
\* <<"rotate", A, sign, B, E, P, the node that is now where A was (under P,
\* or at the root), the child of B on side sign, the child of A on side
\* -sign, the parents of A, of B and of E (nil when there is no E), the
\* in-order sequence of the tree before and after, the balance fields before
\* and after>>.
RotateEvent(m, mm, A, sign) ==
    LET B == avlGetChild(m, A, -sign)
        E == avlGetChild(m, B, sign)
        P == avlGetParent(m, A)
    IN  <<"rotate", A, sign, B, E, P,
          IF P = Nil THEN mm.root
          ELSE IF m.left[P] = A THEN mm.left[P] ELSE mm.right[P],
          avlGetChild(mm, B, sign), avlGetChild(mm, A, -sign),
          mm.parent[A], mm.parent[B],
          IF E # Nil THEN mm.parent[E] ELSE Nil,
          InOrderOf(m), InOrderOf(mm), m.balance, mm.balance>>

\* The memory mm with RotateEvent noted.
NoteRotate(m, mm, A, sign) ==
    CHOOSE r \in {Note(y, RotateEvent(x, y, A, sign)) :
                     x \in {m}, y \in {mm}} : TRUE

\* Faulty variant of avlRotate: B is given its parent with
\* avlSetParentBalance, as the double rotation does, which resets its
\* balance factor.
avlRotate_SetsBalance(m, A, sign) ==
    LET B  == avlGetChild(m, A, -sign)
        E  == avlGetChild(m, B, sign)
        P  == avlGetParent(m, A)
        m1 == avlSetParent(avlSetChild(m, A, -sign, E), A, B)
        m2 == avlSetParentBalance(avlSetChild(m1, B, sign, A), B, P, 0)
        m3 == IF E # Nil THEN avlSetParent(m2, E, A) ELSE m2
    IN  NoteRotate(m, avlReplaceChild(m3, P, A, B), A, sign)

\* Faulty variant of avlRotate: the parent of E is not updated.
avlRotate_StaleParentOfE(m, A, sign) ==
    LET B  == avlGetChild(m, A, -sign)
        P  == avlGetParent(m, A)
        m1 == avlSetParent(avlSetChild(m, A, -sign, avlGetChild(m, B, sign)), A, B)
        m2 == avlSetParent(avlSetChild(m1, B, sign, A), B, P)
    IN  avlReplaceChild(m2, P, A, B)

\* Faulty variant of avlRotate: A keeps P as its parent.
avlRotate_KeepsParentOfA(m, A, sign) ==
    LET B  == avlGetChild(m, A, -sign)
        E  == avlGetChild(m, B, sign)
        P  == avlGetParent(m, A)
        m1 == avlSetChild(m, A, -sign, E)
        m2 == avlSetParent(avlSetChild(m1, B, sign, A), B, P)
        m3 == IF E # Nil THEN avlSetParent(m2, E, A) ELSE m2
    IN  NoteRotate(m, avlReplaceChild(m3, P, A, B), A, sign)

\* Notes RotateEvent.
avlRotate(m, A, sign) ==
    LET B  == avlGetChild(m, A, -sign)
        E  == avlGetChild(m, B, sign)
        P  == avlGetParent(m, A)
        m1 == avlSetParent(avlSetChild(m, A, -sign, E), A, B)
        m2 == avlSetParent(avlSetChild(m1, B, sign, A), B, P)
        m3 == IF E # Nil THEN avlSetParent(m2, E, A) ELSE m2
    IN  NoteRotate(m, avlReplaceChild(m3, P, A, B), A, sign)

\* Faulty variant of avlDoDoubleRotate: A and B are always left neutral.
avlDoDoubleRotate_AlwaysNeutral(m, B, A, sign) ==
    LET E  == avlGetChild(m, B, sign)
        F  == avlGetChild(m, E, -sign)
        G  == avlGetChild(m, E, sign)
        P  == avlGetParent(m, A)
        m1 == avlSetChild(m, A, -sign, G)
        m2 == avlSetParentBalance(m1, A, E, 0)
        m3 == avlSetChild(m2, B, sign, F)
        m4 == avlSetParentBalance(m3, B, E, 0)
        m5 == avlSetChild(avlSetChild(m4, E, sign, A), E, -sign, B)
        m6 == avlSetParentBalance(m5, E, P, 0)
        m7 == IF G # Nil THEN avlSetParent(m6, G, A) ELSE m6
        m8 == IF F # Nil THEN avlSetParent(m7, F, B) ELSE m7
    IN  [m |-> avlReplaceChild(m8, P, A, E), ret |-> E]

\* What avlDoDoubleRotate notes once it is done, mm being the memory it
\* leaves: <<"double", A, sign, B, E, the balance factor e that E had, the
\* balance factors that A, B and E have got, the node returned, the node that
\* is now where A was (under P, or at the root)>>.
DoubleEvent(m, mm, B, A, sign, ret) ==
    LET E == avlGetChild(m, B, sign)
        P == avlGetParent(m, A)
    IN  <<"double", A, sign, B, E, avlGetBalanceFactor(m, E),
          avlGetBalanceFactor(mm, A), avlGetBalanceFactor(mm, B),
          avlGetBalanceFactor(mm, E), ret,
          IF P = Nil THEN mm.root
          ELSE IF m.left[P] = A THEN mm.left[P] ELSE mm.right[P]>>

\* The memory mm with DoubleEvent noted.
NoteDouble(m, mm, B, A, sign, ret) ==
    CHOOSE r \in {Note(y, DoubleEvent(x, y, B, A, sign, ret)) :
                     x \in {m}, y \in {mm}} : TRUE

\* Faulty variant of avlDoDoubleRotate: the two tests on sign * e are
\* exchanged.
avlDoDoubleRotate_Exchanged(m, B, A, sign) ==
    LET E  == avlGetChild(m, B, sign)
        F  == avlGetChild(m, E, -sign)
        G  == avlGetChild(m, E, sign)
        P  == avlGetParent(m, A)
        e  == avlGetBalanceFactor(m, E)
        m1 == avlSetChild(m, A, -sign, G)
        m2 == IF sign * e <= 0 THEN avlSetParentBalance(m1, A, E, 0)
              ELSE avlSetParentBalance(m1, A, E, -e)
        m3 == avlSetChild(m2, B, sign, F)
        m4 == IF sign * e >= 0 THEN avlSetParentBalance(m3, B, E, 0)
              ELSE avlSetParentBalance(m3, B, E, -e)
        m5 == avlSetChild(avlSetChild(m4, E, sign, A), E, -sign, B)
        m6 == avlSetParentBalance(m5, E, P, 0)
        m7 == IF G # Nil THEN avlSetParent(m6, G, A) ELSE m6
        m8 == IF F # Nil THEN avlSetParent(m7, F, B) ELSE m7
    IN  [m |-> NoteDouble(m, avlReplaceChild(m8, P, A, E), B, A, sign, E),
         ret |-> E]

\* Faulty variant of avlDoDoubleRotate: it returns B, not E.
avlDoDoubleRotate_ReturnsB(m, B, A, sign) ==
    LET E  == avlGetChild(m, B, sign)
        F  == avlGetChild(m, E, -sign)
        G  == avlGetChild(m, E, sign)
        P  == avlGetParent(m, A)
        e  == avlGetBalanceFactor(m, E)
        m1 == avlSetChild(m, A, -sign, G)
        m2 == IF sign * e >= 0 THEN avlSetParentBalance(m1, A, E, 0)
              ELSE avlSetParentBalance(m1, A, E, -e)
        m3 == avlSetChild(m2, B, sign, F)
        m4 == IF sign * e <= 0 THEN avlSetParentBalance(m3, B, E, 0)
              ELSE avlSetParentBalance(m3, B, E, -e)
        m5 == avlSetChild(avlSetChild(m4, E, sign, A), E, -sign, B)
        m6 == avlSetParentBalance(m5, E, P, 0)
        m7 == IF G # Nil THEN avlSetParent(m6, G, A) ELSE m6
        m8 == IF F # Nil THEN avlSetParent(m7, F, B) ELSE m7
    IN  [m |-> NoteDouble(m, avlReplaceChild(m8, P, A, E), B, A, sign, B),
         ret |-> B]

\* Returns [m, ret]: the memory left and the node E returned.  Notes
\* DoubleEvent.
avlDoDoubleRotate(m, B, A, sign) ==
    LET E  == avlGetChild(m, B, sign)
        F  == avlGetChild(m, E, -sign)
        G  == avlGetChild(m, E, sign)
        P  == avlGetParent(m, A)
        e  == avlGetBalanceFactor(m, E)
        m1 == avlSetChild(m, A, -sign, G)
        m2 == IF sign * e >= 0 THEN avlSetParentBalance(m1, A, E, 0)
              ELSE avlSetParentBalance(m1, A, E, -e)
        m3 == avlSetChild(m2, B, sign, F)
        m4 == IF sign * e <= 0 THEN avlSetParentBalance(m3, B, E, 0)
              ELSE avlSetParentBalance(m3, B, E, -e)
        m5 == avlSetChild(avlSetChild(m4, E, sign, A), E, -sign, B)
        m6 == avlSetParentBalance(m5, E, P, 0)
        m7 == IF G # Nil THEN avlSetParent(m6, G, A) ELSE m6
        m8 == IF F # Nil THEN avlSetParent(m7, F, B) ELSE m7
    IN  [m |-> NoteDouble(m, avlReplaceChild(m8, P, A, E), B, A, sign, E),
         ret |-> E]

---------------------------------------------------------------------------
\* Insertion rebalancer

\* Faulty variant of avlHandleSubtreeGrowth: the single rotation leaves the
\* balance factors of parent and node as they were.
avlHandleSubtreeGrowth_RotateOnly(m, node, p, sign) ==
    LET oldBalanceFactor == avlGetBalanceFactor(m, p)
        newBalanceFactor == oldBalanceFactor + sign
    IN  IF oldBalanceFactor = 0
        THEN [m |-> avlAdjustBalanceFactor(m, p, sign), done |-> FALSE]
        ELSE IF newBalanceFactor = 0
        THEN [m |-> avlAdjustBalanceFactor(m, p, sign), done |-> TRUE]
        ELSE IF sign * avlGetBalanceFactor(m, node) > 0
        THEN [m |-> avlRotate(m, p, -sign), done |-> TRUE]
        ELSE [m |-> avlDoDoubleRotate(m, node, p, -sign).m, done |-> TRUE]

\* Returns [m, done].  Notes, on entry, <<"growth", parent, sign, the balance
\* factor parent gets from the growth (+2 or -2 when it is too heavy), the
\* balance factor of node>>, and on return <<"grown", parent, done>>.
\* Faulty variant of avlHandleSubtreeGrowth: it stores the new balance factor
\* in the parent before it tests it, and takes the excess back after the
\* rotation, so that a factor of +2 or -2 is stored for a while.
avlHandleSubtreeGrowth_StoresFirst(m, node, p, sign) ==
    LET oldBalanceFactor == avlGetBalanceFactor(m, p)
        newBalanceFactor == oldBalanceFactor + sign
        m0 == Note(m, <<"growth", p, sign, newBalanceFactor,
                        avlGetBalanceFactor(m, node)>>)
        Return(mm, done) ==
            [m |-> Note(mm, <<"grown", p, done>>), done |-> done]
    IN  IF oldBalanceFactor = 0
        THEN Return(avlAdjustBalanceFactor(m0, p, sign), FALSE)
        ELSE IF newBalanceFactor = 0
        THEN Return(avlAdjustBalanceFactor(m0, p, sign), TRUE)
        ELSE IF sign * avlGetBalanceFactor(m0, node) > 0
        THEN LET m1 == avlRotate(avlAdjustBalanceFactor(m0, p, sign),
                                 p, -sign)
                 m2 == avlAdjustBalanceFactor(m1, p, -2 * sign)
             IN  Return(avlAdjustBalanceFactor(m2, node, -sign), TRUE)
        ELSE Return(avlDoDoubleRotate(m0, node, p, -sign).m, TRUE)

avlHandleSubtreeGrowth(m, node, p, sign) ==
    LET oldBalanceFactor == avlGetBalanceFactor(m, p)
        newBalanceFactor == oldBalanceFactor + sign
        m0 == Note(m, <<"growth", p, sign, newBalanceFactor,
                        avlGetBalanceFactor(m, node)>>)
        Return(mm, done) ==
            [m |-> Note(mm, <<"grown", p, done>>), done |-> done]
    IN  IF oldBalanceFactor = 0
        THEN Return(avlAdjustBalanceFactor(m0, p, sign), FALSE)
        ELSE IF newBalanceFactor = 0
        THEN Return(avlAdjustBalanceFactor(m0, p, sign), TRUE)
        ELSE IF sign * avlGetBalanceFactor(m0, node) > 0
        THEN LET m1 == avlRotate(m0, p, -sign)
                 m2 == avlAdjustBalanceFactor(m1, p, -sign)
             IN  Return(avlAdjustBalanceFactor(m2, node, -sign), TRUE)
        ELSE Return(avlDoDoubleRotate(m0, node, p, -sign).m, TRUE)

\* Faulty variant of the for loop of avlTreeRebalanceAfterInsert: it goes on
\* to the root whatever avlHandleSubtreeGrowth returns.
RECURSIVE GrowthLoop_IgnoresDone(_, _)
GrowthLoop_IgnoresDone(m, cur) ==
    LET node == cur
        p    == avlGetParent(m, node)
    IN  IF p = Nil THEN m
        ELSE LET r == IF node = m.left[p]
                      THEN avlHandleSubtreeGrowth(m, node, p, -1)
                      ELSE avlHandleSubtreeGrowth(m, node, p, 1)
             IN  GrowthLoop_IgnoresDone(r.m, p)

\* The for loop of avlTreeRebalanceAfterInsert; cur is the value of the
\* local `parent` on entry to an iteration.
RECURSIVE GrowthLoop(_, _)
GrowthLoop(m, cur) ==
    LET node == cur
        p    == avlGetParent(m, node)
    IN  IF p = Nil THEN m
        ELSE LET r == IF node = m.left[p]
                      THEN avlHandleSubtreeGrowth(m, node, p, -1)
                      ELSE avlHandleSubtreeGrowth(m, node, p, 1)
             IN  IF r.done THEN r.m ELSE GrowthLoop(r.m, p)

\* Faulty variant of avlTreeRebalanceAfterInsert: it goes on to the loop when
\* the parent of the new node has become balanced.
avlTreeRebalanceAfterInsert_NoEarlyReturn(m, inserted) ==
    LET m0 == [m EXCEPT !.left[inserted] = Nil, !.right[inserted] = Nil]
        p  == avlGetParent(m0, inserted)
        m1 == Note(m0, <<"linked", inserted, Nil, Nil, p, 0, inserted,
                         inserted>>)
    IN  IF p = Nil THEN m1
        ELSE LET m2 == IF inserted = m1.left[p]
                       THEN avlAdjustBalanceFactor(m1, p, -1)
                       ELSE avlAdjustBalanceFactor(m1, p, 1)
                 m3 == Note(m2, <<"first", p, avlGetBalanceFactor(m2, p)>>)
             IN  GrowthLoop(m3, p)

\* Notes, once the new node's children are cleared, <<"linked", inserted, its
\* left, right, parent, balance factor and owner, the node its parent (or the
\* root pointer) refers to on its side>>, and after the adjustment of its
\* parent <<"first", parent, the balance factor parent got>>.
avlTreeRebalanceAfterInsert(m, inserted) ==
    LET m0 == [m EXCEPT !.left[inserted] = Nil, !.right[inserted] = Nil]
        p  == avlGetParent(m0, inserted)
        m1 == Note(m0, <<"linked", inserted, m0.left[inserted],
                         m0.right[inserted], p,
                         avlGetBalanceFactor(m0, inserted), m0.owner[inserted],
                         IF p = Nil THEN m0.root
                         ELSE IF cmpNameNode(m0.owner[inserted], m0.owner[p]) < 0
                         THEN m0.left[p] ELSE m0.right[p]>>)
    IN  IF p = Nil THEN m1
        ELSE LET m2 == IF inserted = m1.left[p]
                       THEN avlAdjustBalanceFactor(m1, p, -1)
                       ELSE avlAdjustBalanceFactor(m1, p, 1)
                 m3 == Note(m2, <<"first", p, avlGetBalanceFactor(m2, p)>>)
             IN  IF avlGetBalanceFactor(m3, p) = 0 THEN m3
                 ELSE GrowthLoop(m3, p)

---------------------------------------------------------------------------
\* Deletion rebalancer

\* What avlHandleSubtreeShrink notes on entry: <<"shrink", parent, sign, the
\* balance factor parent gets from the shrinkage (+2 or -2 when it is too
\* heavy), the child of parent on side sign, its balance factor (0 when
\* there is no such child), the fields as they are>>.
ShrinkEvent(m, p, sign) ==
    LET node == avlGetChild(m, p, sign)
    IN  <<"shrink", p, sign, avlGetBalanceFactor(m, p) + sign, node,
          IF node # Nil THEN avlGetBalanceFactor(m, node) ELSE 0, Fields(m)>>

\* Faulty variant of avlHandleSubtreeShrink: after the single rotation with a
\* perfectly balanced child it does not return nil but goes on to the parent
\* of the rotated subtree.
avlHandleSubtreeShrink_NeutralGoesOn(m, p, sign, leftDeleted) ==
    LET oldBalanceFactor == avlGetBalanceFactor(m, p)
        newBalanceFactor == oldBalanceFactor + sign
        m0 == Note(m, ShrinkEvent(m, p, sign))
        Stop(mm) ==
            [m |-> Note(mm, <<"shrunk", p, Nil, Fields(mm)>>), ret |-> Nil,
             leftDeleted |-> leftDeleted]
        Finish(mm, node) ==
            LET pp == avlGetParent(mm, node)
            IN  [m |-> Note(mm, <<"shrunk", p, pp, Fields(mm)>>), ret |-> pp,
                 leftDeleted |-> IF pp # Nil THEN node = mm.left[pp]
                                 ELSE leftDeleted]
    IN  IF oldBalanceFactor = 0
        THEN Stop(avlAdjustBalanceFactor(m0, p, sign))
        ELSE IF newBalanceFactor = 0
        THEN Finish(avlAdjustBalanceFactor(m0, p, sign), p)
        ELSE LET node == avlGetChild(m0, p, sign)
             IN  IF sign * avlGetBalanceFactor(m0, node) >= 0
                 THEN LET m1 == avlRotate(m0, p, -sign)
                      IN  IF avlGetBalanceFactor(m1, node) = 0
                          THEN Finish(avlAdjustBalanceFactor(m1, node, -sign),
                                      node)
                          ELSE Finish(avlAdjustBalanceFactor(
                                        avlAdjustBalanceFactor(m1, p, -sign),
                                        node, -sign), node)
                 ELSE LET r == avlDoDoubleRotate(m0, node, p, -sign)
                      IN  Finish(r.m, r.ret)

\* Faulty variant of avlHandleSubtreeShrink: after a single rotation it
\* returns nil whatever the balance factor of the child was.
avlHandleSubtreeShrink_StopsAfterRotation(m, p, sign, leftDeleted) ==
    LET oldBalanceFactor == avlGetBalanceFactor(m, p)
        newBalanceFactor == oldBalanceFactor + sign
        m0 == Note(m, ShrinkEvent(m, p, sign))
        Stop(mm) ==
            [m |-> Note(mm, <<"shrunk", p, Nil, Fields(mm)>>), ret |-> Nil,
             leftDeleted |-> leftDeleted]
        Finish(mm, node) ==
            LET pp == avlGetParent(mm, node)
            IN  [m |-> Note(mm, <<"shrunk", p, pp, Fields(mm)>>), ret |-> pp,
                 leftDeleted |-> IF pp # Nil THEN node = mm.left[pp]
                                 ELSE leftDeleted]
    IN  IF oldBalanceFactor = 0
        THEN Stop(avlAdjustBalanceFactor(m0, p, sign))
        ELSE IF newBalanceFactor = 0
        THEN Finish(avlAdjustBalanceFactor(m0, p, sign), p)
        ELSE LET node == avlGetChild(m0, p, sign)
             IN  IF sign * avlGetBalanceFactor(m0, node) >= 0
                 THEN LET m1 == avlRotate(m0, p, -sign)
                      IN  IF avlGetBalanceFactor(m1, node) = 0
                          THEN Stop(avlAdjustBalanceFactor(m1, node, -sign))
                          ELSE Stop(avlAdjustBalanceFactor(
                                      avlAdjustBalanceFactor(m1, p, -sign),
                                      node, -sign))
                 ELSE LET r == avlDoDoubleRotate(m0, node, p, -sign)
                      IN  Finish(r.m, r.ret)

\* Returns [m, ret, leftDeleted]: ret is the node returned (Nil when the tree
\* is balanced) and leftDeleted the value left in *leftDeletedRet, which is
\* written only when ret is not nil.
\* Notes ShrinkEvent on entry, and on return <<"shrunk", parent, the node
\* returned, the fields as they are>>.
avlHandleSubtreeShrink(m, p, sign, leftDeleted) ==
    LET oldBalanceFactor == avlGetBalanceFactor(m, p)
        newBalanceFactor == oldBalanceFactor + sign
        m0 == Note(m, ShrinkEvent(m, p, sign))
        Leave(mm, node) ==
            LET pp == IF node = Nil THEN Nil ELSE avlGetParent(mm, node)
            IN  [m |-> Note(mm, <<"shrunk", p, pp, Fields(mm)>>), ret |-> pp,
                 leftDeleted |-> IF pp # Nil THEN node = mm.left[pp]
                                 ELSE leftDeleted]
        Stop(mm) == CHOOSE r \in {Leave(x, Nil) : x \in {mm}} : TRUE
        Finish(mm, node) == CHOOSE r \in {Leave(x, node) : x \in {mm}} : TRUE
    IN  IF oldBalanceFactor = 0
        THEN Stop(avlAdjustBalanceFactor(m0, p, sign))
        ELSE IF newBalanceFactor = 0
        THEN Finish(avlAdjustBalanceFactor(m0, p, sign), p)
        ELSE LET node == avlGetChild(m0, p, sign)
             IN  IF sign * avlGetBalanceFactor(m0, node) >= 0
                 THEN LET m1 == avlRotate(m0, p, -sign)
                      IN  IF avlGetBalanceFactor(m1, node) = 0
                          THEN Stop(avlAdjustBalanceFactor(m1, node, -sign))
                          ELSE Finish(avlAdjustBalanceFactor(
                                        avlAdjustBalanceFactor(m1, p, -sign),
                                        node, -sign), node)
                 ELSE LET r == avlDoDoubleRotate(m0, node, p, -sign)
                      IN  Finish(r.m, r.ret)

\* The inner loop of avlTreeSwapWithSuccessor: descends to the leftmost node
\* below Y and returns <<Q, Y>>.
RECURSIVE SuccessorDescend(_, _)
SuccessorDescend(m, Y0) ==
    LET Q == Y0
        Y == m.left[Y0]
    IN  IF m.left[Y] = Nil THEN <<Q, Y>> ELSE SuccessorDescend(m, Y)

\* Returns [m, ret, leftDeleted].
avlTreeSwapWithSuccessor(m, X) ==
    LET Y0   == m.right[X]
        near == m.left[Y0] = Nil
        QY   == SuccessorDescend(m, Y0)
        Q    == QY[1]
        Y    == IF near THEN Y0 ELSE QY[2]
        m1   == IF near THEN m
                ELSE LET a == [m EXCEPT !.left[Q] = m.right[Y]]
                         b == IF a.left[Q] # Nil
                              THEN avlSetParent(a, a.left[Q], Q) ELSE a
                         c == [b EXCEPT !.right[Y] = b.right[X]]
                     IN  avlSetParent(c, c.right[X], Y)
        m2   == [m1 EXCEPT !.left[Y] = m1.left[X]]
        m3   == avlSetParent(m2, m2.left[X], Y)
        m4   == avlSetBalance([m3 EXCEPT !.parent[Y] = m3.parent[X]],
                              Y, m3.balance[X])
    IN  [m |-> avlReplaceChild(m4, avlGetParent(m4, X), X, Y),
         ret |-> IF near THEN Y ELSE Q,
         leftDeleted |-> ~near]

---------------------------------------------------------------------------
\* Traversal

RECURSIVE NextDescend(_, _, _)
NextDescend(m, next, sign) ==
    IF avlGetChild(m, next, -sign) # Nil
    THEN NextDescend(m, avlGetChild(m, next, -sign), sign)
    ELSE next

\* Faulty variant of the ascent of avlTreeNextOrPrevInOrder: it stops at the
\* parent without asking which side it came from.
NextAscend_FirstParent(m, node, next, sign) == next

RECURSIVE NextAscend(_, _, _, _)
NextAscend(m, node, next, sign) ==
    IF next # Nil /\ node = avlGetChild(m, next, sign)
    THEN NextAscend(m, next, avlGetParent(m, next), sign)
    ELSE next

avlTreeNextOrPrevInOrder(m, node, sign) ==
    IF avlGetChild(m, node, sign) # Nil
    THEN NextDescend(m, avlGetChild(m, node, sign), sign)
    ELSE NextAscend(m, node, avlGetParent(m, node), sign)

\* What the exported functions return for a node pointer rp: its owner, or
\* nil.
OwnerOf(m, rp) == IF rp # Nil THEN m.owner[rp] ELSE Nil

AvlTreeFirstInOrder(m) == OwnerOf(m, avlTreeFirstOrLastInOrder(m, m.root, -1))

\* Faulty variant of AvlTreeLastInOrder: it descends to the left.
AvlTreeLastInOrder_WrongSign(m) ==
    OwnerOf(m, avlTreeFirstOrLastInOrder(m, m.root, -1))

AvlTreeLastInOrder(m) == OwnerOf(m, avlTreeFirstOrLastInOrder(m, m.root, 1))

AvlTreeNextInOrder(m, node) == OwnerOf(m, avlTreeNextOrPrevInOrder(m, node, 1))

AvlTreePrevInOrder(m, node) == OwnerOf(m, avlTreeNextOrPrevInOrder(m, node, -1))

\* The descent of the two post-order functions: to a node without children,
\* by the left child where there is one.
RECURSIVE PostOrderDescend(_, _)
PostOrderDescend(m, n) ==
    IF m.left[n] # Nil \/ m.right[n] # Nil
    THEN IF m.left[n] # Nil THEN PostOrderDescend(m, m.left[n])
         ELSE PostOrderDescend(m, m.right[n])
    ELSE n

AvlTreeFirstInPostOrder(m) ==
    OwnerOf(m, IF m.root # Nil THEN PostOrderDescend(m, m.root) ELSE Nil)

\* Faulty variant of AvlTreeNextInPostOrder: it never enters the right
\* subtree of the parent.
AvlTreeNextInPostOrder_SkipsRight(m, prev, prevParent) == OwnerOf(m, prevParent)

AvlTreeNextInPostOrder(m, prev, prevParent) ==
    LET next == prevParent
    IN  OwnerOf(m, IF next # Nil /\ prev = m.left[next] /\ m.right[next] # Nil
                   THEN PostOrderDescend(m, m.right[next])
                   ELSE next)

AvlGetParent(m, node) == OwnerOf(m, avlGetParent(m, node))

AvlLeftChild(m, node) == OwnerOf(m, m.left[node])

AvlRightChild(m, node) == OwnerOf(m, m.right[node])

AvlGetBalanceFactor(m, node) == avlGetBalanceFactor(m, node)

---------------------------------------------------------------------------
\* Lookup, Insert, Remove

\* Faulty variant of the descent of AvlTreeLookup: the two directions are
\* exchanged.
RECURSIVE LookupDescend_Exchanged(_, _, _)
LookupDescend_Exchanged(m, cur, key) ==
    IF cur = Nil THEN Nil
    ELSE LET res == cmpNameKey(key, m.owner[cur])
         IN  IF res < 0 THEN LookupDescend_Exchanged(m, m.right[cur], key)
             ELSE IF res > 0 THEN LookupDescend_Exchanged(m, m.left[cur], key)
             ELSE cur

RECURSIVE LookupDescend(_, _, _)
LookupDescend(m, cur, key) ==
    IF cur = Nil THEN Nil
    ELSE LET res == cmpNameKey(key, m.owner[cur])
         IN  IF res < 0 THEN LookupDescend(m, m.left[cur], key)
             ELSE IF res > 0 THEN LookupDescend(m, m.right[cur], key)
             ELSE cur

AvlTreeLookup(m, key) == OwnerOf(m, LookupDescend(m, m.root, key))

\* The descent of AvlTreeInsert.  curPtr is the slot under inspection:
\* <<Nil, 0>> is the root pointer, <<n, -1>> is &n.left, <<n, 1>> is &n.right.
\* Returns [found, cur, curPtr]: found is the node comparing equal, or Nil.
SlotValue(m, curPtr) ==
    IF curPtr[1] = Nil THEN m.root ELSE avlGetChild(m, curPtr[1], curPtr[2])

\* Faulty variant of the descent of AvlTreeInsert: it goes left in both
\* cases.
RECURSIVE InsertDescend_AlwaysLeft(_, _, _, _)
InsertDescend_AlwaysLeft(m, curPtr, cur, own) ==
    IF SlotValue(m, curPtr) = Nil
    THEN [found |-> Nil, cur |-> cur, curPtr |-> curPtr]
    ELSE LET c   == SlotValue(m, curPtr)
             res == cmpNameNode(own, m.owner[c])
         IN  IF res # 0 THEN InsertDescend_AlwaysLeft(m, <<c, -1>>, c, own)
             ELSE [found |-> c, cur |-> c, curPtr |-> curPtr]

RECURSIVE InsertDescend(_, _, _, _)
InsertDescend(m, curPtr, cur, own) ==
    IF SlotValue(m, curPtr) = Nil
    THEN [found |-> Nil, cur |-> cur, curPtr |-> curPtr]
    ELSE LET c   == SlotValue(m, curPtr)
             res == cmpNameNode(own, m.owner[c])
         IN  IF res < 0 THEN InsertDescend(m, <<c, -1>>, c, own)
             ELSE IF res > 0 THEN InsertDescend(m, <<c, 1>>, c, own)
             ELSE [found |-> c, cur |-> c, curPtr |-> curPtr]

\* Faulty variant of AvlTreeInsert: the owner of the item is written before
\* the descent.
AvlTreeInsert_OwnerFirst(m, item, own) ==
    LET m0 == [m EXCEPT !.owner[item] = own]
        d  == InsertDescend(m0, <<Nil, 0>>, Nil, own)
        m1 == IF d.curPtr[1] = Nil THEN [m0 EXCEPT !.root = item]
              ELSE avlSetChild(m0, d.curPtr[1], d.curPtr[2], item)
        m2 == [m1 EXCEPT !.parent[item] = d.cur, !.balance[item] = 1]
    IN  IF d.found # Nil THEN [m |-> m0, ret |-> m0.owner[d.found]]
        ELSE [m |-> avlTreeRebalanceAfterInsert(m2, item), ret |-> Nil]

\* Faulty variant of AvlTreeInsert: the balance field of the item is left as
\* the caller passed it.
AvlTreeInsert_KeepsBalance(m, item, own) ==
    LET d  == InsertDescend(m, <<Nil, 0>>, Nil, own)
        m1 == IF d.curPtr[1] = Nil THEN [m EXCEPT !.root = item]
              ELSE avlSetChild(m, d.curPtr[1], d.curPtr[2], item)
        m2 == [m1 EXCEPT !.parent[item] = d.cur, !.owner[item] = own]
    IN  IF d.found # Nil THEN [m |-> m, ret |-> m.owner[d.found]]
        ELSE [m |-> avlTreeRebalanceAfterInsert(m2, item), ret |-> Nil]

\* Faulty variant of AvlTreeInsert: the owner field of the item is left as
\* the caller passed it.
AvlTreeInsert_KeepsOwner(m, item, own) ==
    LET d  == InsertDescend(m, <<Nil, 0>>, Nil, own)
        m1 == IF d.curPtr[1] = Nil THEN [m EXCEPT !.root = item]
              ELSE avlSetChild(m, d.curPtr[1], d.curPtr[2], item)
        m2 == avlSetBalance([m1 EXCEPT !.parent[item] = d.cur], item, 1)
    IN  IF d.found # Nil THEN [m |-> m, ret |-> m.owner[d.found]]
        ELSE [m |-> avlTreeRebalanceAfterInsert(m2, item), ret |-> Nil]

\* Returns [m, ret]: ret is nil, or the owner of the node already present.
AvlTreeInsert(m, item, own) ==
    LET d  == InsertDescend(m, <<Nil, 0>>, Nil, own)
        m1 == IF d.curPtr[1] = Nil THEN [m EXCEPT !.root = item]
              ELSE avlSetChild(m, d.curPtr[1], d.curPtr[2], item)
        m2 == [avlSetBalance([m1 EXCEPT !.parent[item] = d.cur], item, 1)
                  EXCEPT !.owner[item] = own]
    IN  IF d.found # Nil THEN [m |-> m, ret |-> m.owner[d.found]]
        ELSE [m |-> avlTreeRebalanceAfterInsert(m2, item), ret |-> Nil]

\* The rebalancing loop of AvlTreeRemove: one call of avlHandleSubtreeShrink,
\* then ShrinkNext on what it returned: the loop goes on while the parent
\* returned is not nil.
RECURSIVE ShrinkLoop(_, _, _)
RECURSIVE ShrinkNext(_)
ShrinkNext(r) ==
    IF r.ret = Nil THEN r.m ELSE ShrinkLoop(r.m, r.ret, r.leftDeleted)

ShrinkLoop(m, p, leftDeleted) ==
    ShrinkNext(IF leftDeleted
               THEN avlHandleSubtreeShrink(m, p, 1, leftDeleted)
               ELSE avlHandleSubtreeShrink(m, p, -1, leftDeleted))

\* Faulty variant of AvlTreeRemove: removing a root that has no children
\* leaves the root pointer as it is.
AvlTreeRemove_KeepsRoot(m, node) ==
    IF m.left[node] # Nil /\ m.right[node] # Nil
    THEN LET r == avlTreeSwapWithSuccessor(m, node)
         IN  ShrinkLoop(r.m, r.ret, r.leftDeleted)
    ELSE LET child == IF m.left[node] # Nil THEN m.left[node]
                      ELSE m.right[node]
             p     == avlGetParent(m, node)
         IN  IF p # Nil
             THEN LET isLeft == node = m.left[p]
                      m1 == IF isLeft THEN [m EXCEPT !.left[p] = child]
                            ELSE [m EXCEPT !.right[p] = child]
                      m2 == IF child # Nil THEN avlSetParent(m1, child, p)
                            ELSE m1
                  IN  ShrinkLoop(m2, p, isLeft)
             ELSE IF child # Nil
                  THEN [avlSetParent(m, child, p) EXCEPT !.root = child]
                  ELSE IF m.root # node
                       THEN [m EXCEPT !.panic = TRUE]
                       ELSE m

\* Faulty variant of AvlTreeRemove: the root reference is written before the
\* test that ends in panic().
AvlTreeRemove_WritesRootFirst(m, node) ==
    IF m.left[node] # Nil /\ m.right[node] # Nil
    THEN LET r == avlTreeSwapWithSuccessor(m, node)
         IN  ShrinkLoop(r.m, r.ret, r.leftDeleted)
    ELSE LET child == IF m.left[node] # Nil THEN m.left[node]
                      ELSE m.right[node]
             p     == avlGetParent(m, node)
         IN  IF p # Nil
             THEN LET isLeft == node = m.left[p]
                      m1 == IF isLeft THEN [m EXCEPT !.left[p] = child]
                            ELSE [m EXCEPT !.right[p] = child]
                      m2 == IF child # Nil THEN avlSetParent(m1, child, p)
                            ELSE m1
                  IN  ShrinkLoop(m2, p, isLeft)
             ELSE IF child # Nil
                  THEN [avlSetParent(m, child, p) EXCEPT !.root = child]
                  ELSE IF m.root # node
                       THEN [m EXCEPT !.root = child, !.panic = TRUE]
                       ELSE [m EXCEPT !.root = child]

\* Faulty variant of AvlTreeRemove: once the node is unlinked it is marked
\* as avlTreeNodeSetUnlinked marks a node, its parent being the node itself.
AvlTreeRemove_MarksUnlinked(m, node) ==
    LET mm ==
        IF m.left[node] # Nil /\ m.right[node] # Nil
        THEN LET r == avlTreeSwapWithSuccessor(m, node)
             IN  ShrinkLoop(r.m, r.ret, r.leftDeleted)
        ELSE LET child == IF m.left[node] # Nil THEN m.left[node]
                          ELSE m.right[node]
                 p     == avlGetParent(m, node)
             IN  IF p # Nil
                 THEN LET isLeft == node = m.left[p]
                          m1 == IF isLeft THEN [m EXCEPT !.left[p] = child]
                                ELSE [m EXCEPT !.right[p] = child]
                          m2 == IF child # Nil THEN avlSetParent(m1, child, p)
                                ELSE m1
                      IN  ShrinkLoop(m2, p, isLeft)
                 ELSE IF child # Nil
                      THEN [avlSetParent(m, child, p) EXCEPT !.root = child]
                      ELSE IF m.root # node
                           THEN [m EXCEPT !.panic = TRUE]
                           ELSE [m EXCEPT !.root = child]
    IN  [mm EXCEPT !.parent[node] = node]

\* Faulty variant of AvlTreeRemove: a node that has two children is left in
\* the tree.
AvlTreeRemove_LeavesInner(m, node) ==
    IF m.left[node] # Nil /\ m.right[node] # Nil
    THEN m
    ELSE LET child == IF m.left[node] # Nil THEN m.left[node]
                      ELSE m.right[node]
             p     == avlGetParent(m, node)
         IN  IF p # Nil
             THEN LET isLeft == node = m.left[p]
                      m1 == IF isLeft THEN [m EXCEPT !.left[p] = child]
                            ELSE [m EXCEPT !.right[p] = child]
                      m2 == IF child # Nil THEN avlSetParent(m1, child, p)
                            ELSE m1
                  IN  ShrinkLoop(m2, p, isLeft)
             ELSE IF child # Nil
                  THEN [avlSetParent(m, child, p) EXCEPT !.root = child]
                  ELSE IF m.root # node
                       THEN [m EXCEPT !.panic = TRUE]
                       ELSE [m EXCEPT !.root = child]

\* Returns the memory left; its panic field tells whether panic() was called.
AvlTreeRemove(m, node) ==
    IF m.left[node] # Nil /\ m.right[node] # Nil
    THEN LET r == avlTreeSwapWithSuccessor(m, node)
         IN  ShrinkLoop(r.m, r.ret, r.leftDeleted)
    ELSE LET child == IF m.left[node] # Nil THEN m.left[node]
                      ELSE m.right[node]
             p     == avlGetParent(m, node)
         IN  IF p # Nil
             THEN LET isLeft == node = m.left[p]
                      m1 == IF isLeft THEN [m EXCEPT !.left[p] = child]
                            ELSE [m EXCEPT !.right[p] = child]
                      m2 == IF child # Nil THEN avlSetParent(m1, child, p)
                            ELSE m1
                  IN  ShrinkLoop(m2, p, isLeft)
             ELSE IF child # Nil
                  THEN [avlSetParent(m, child, p) EXCEPT !.root = child]
                  ELSE IF m.root # node
                       THEN [m EXCEPT !.panic = TRUE]
                       ELSE [m EXCEPT !.root = child]

---------------------------------------------------------------------------
\* The caller: the walks the tests run over the exported traversal functions.
\* Record n embeds node n, so the node of an owner is the owner itself.

\* TestAvlTreeNextInOrder / TestAvlTreePrevInOrder: from the owner p returned
\* last, call Next (sign > 0) or Prev (sign < 0) until nil is returned; acc is
\* the sequence of owners returned so far.  A walk is cut after NumNodes + 1
\* owners, one more than any tree holds.
RECURSIVE WalkFrom(_, _, _, _)
WalkFrom(m, p, sign, acc) ==
    IF p = Nil \/ Len(acc) > NumNodes THEN acc
    ELSE LET nxt == IF sign > 0 THEN AvlTreeNextInOrder(m, p)
                    ELSE AvlTreePrevInOrder(m, p)
         IN  WalkFrom(m, nxt, sign, IF nxt = Nil THEN acc ELSE Append(acc, nxt))

ForwardWalk(m) ==
    LET p == AvlTreeFirstInOrder(m)
    IN  IF p = Nil THEN <<>> ELSE WalkFrom(m, p, 1, <<p>>)

BackwardWalk(m) ==
    LET p == AvlTreeLastInOrder(m)
    IN  IF p = Nil THEN <<>> ELSE WalkFrom(m, p, -1, <<p>>)

\* TestAvlTreeNextInPostOrder: from the owner p returned last, take its parent
\* and, while there is one, call AvlTreeNextInPostOrder(p, parent).  A nil
\* returned there is kept in the sequence and ends the walk (the test's type
\* assertion fails on it).
RECURSIVE PostOrderWalkFrom(_, _, _)
PostOrderWalkFrom(m, p, acc) ==
    LET pp == AvlGetParent(m, p)
    IN  IF pp = Nil \/ Len(acc) > NumNodes THEN acc
        ELSE LET nxt == AvlTreeNextInPostOrder(m, p, pp)
             IN  IF nxt = Nil THEN Append(acc, Nil)
                 ELSE PostOrderWalkFrom(m, nxt, Append(acc, nxt))

PostOrderWalk(m) ==
    LET p == AvlTreeFirstInPostOrder(m)
    IN  IF p = Nil THEN <<>> ELSE PostOrderWalkFrom(m, p, <<p>>)

\* The memory the read-only functions leave.  None of them has an assignment
\* through a node pointer or through the root pointer: AvlTreeLookup, the
\* in-order functions (First, Last, Next, Prev), the post-order functions
\* (First, Next) and the accessors AvlGetParent, AvlLeftChild, AvlRightChild
\* and AvlGetBalanceFactor assign to their local variables only.

\* Faulty variant of AvlTreeLookupLeaves: the lookup of a key that is not in
\* the tree reads the owner through the nil pointer, and panics.
AvlTreeLookupLeaves_PanicsOnAbsent(m, key) ==
    IF LookupDescend(m, m.root, key) = Nil THEN [m EXCEPT !.panic = TRUE]
    ELSE m

AvlTreeLookupLeaves(m, key) == m

InOrderLeaves(m) == m

PostOrderLeaves(m) == m

AccessorsLeave(m, node) == m

---------------------------------------------------------------------------
\* The exported functions, one loop iteration at a time.  run is the call in
\* progress: fn the function, it its node or key argument, s its sign, ph the
\* loop it is in ("entry" before its first statement), and its locals: x and y
\* node pointers, cp a slot as in InsertDescend, ld the flag leftDeleted.  m0
\* is the memory the call found.  A step returns [m, run, done, ret]: the
\* memory and locals it leaves, whether the function has returned, and what.

Goes(m, run) == [m |-> m, run |-> run, done |-> FALSE, ret |-> Nil]

Returns(m, run, ret) == [m |-> m, run |-> run, done |-> TRUE, ret |-> ret]

\* Faulty variant of AvlTreeLookupStep: going left, cur stays where it is.
AvlTreeLookupStep_StaysLeft(m, run) ==
    IF run.ph = "entry"
    THEN Goes(m, [run EXCEPT !.ph = "loop", !.x = m.root])
    ELSE IF run.x = Nil THEN Returns(m, run, Nil)
    ELSE LET res == cmpNameKey(run.it, m.owner[run.x])
         IN  IF res < 0 THEN Goes(m, run)
             ELSE IF res > 0 THEN Goes(m, [run EXCEPT !.x = m.right[run.x]])
             ELSE Returns(m, run, OwnerOf(m, run.x))

\* AvlTreeLookup: x is cur.
AvlTreeLookupStep(m, run) ==
    IF run.ph = "entry"
    THEN Goes(m, [run EXCEPT !.ph = "loop", !.x = m.root])
    ELSE IF run.x = Nil THEN Returns(m, run, Nil)
    ELSE LET res == cmpNameKey(run.it, m.owner[run.x])
         IN  IF res < 0 THEN Goes(m, [run EXCEPT !.x = m.left[run.x]])
             ELSE IF res > 0 THEN Goes(m, [run EXCEPT !.x = m.right[run.x]])
             ELSE Returns(m, run, OwnerOf(m, run.x))

\* AvlTreeFirstInOrder and AvlTreeLastInOrder (loop "edge" of
\* avlTreeFirstOrLastInOrder, x is first), AvlTreeNextInOrder and
\* AvlTreePrevInOrder (loops "descend" and "ascend" of
\* avlTreeNextOrPrevInOrder, x is next and y is node).
InOrderStep(m, run) ==
    LET sign == run.s
    IN  IF run.ph = "entry"
        THEN IF run.fn \in {"first", "last"}
             THEN Goes(m, [run EXCEPT !.ph = "edge", !.x = m.root])
             ELSE IF avlGetChild(m, run.it, sign) # Nil
             THEN Goes(m, [run EXCEPT !.ph = "descend",
                                      !.x = avlGetChild(m, run.it, sign)])
             ELSE Goes(m, [run EXCEPT !.ph = "ascend", !.y = run.it,
                                      !.x = avlGetParent(m, run.it)])
        ELSE IF run.ph = "edge"
        THEN IF run.x # Nil /\ avlGetChild(m, run.x, sign) # Nil
             THEN Goes(m, [run EXCEPT !.x = avlGetChild(m, run.x, sign)])
             ELSE Returns(m, run, OwnerOf(m, run.x))
        ELSE IF run.ph = "descend"
        THEN IF avlGetChild(m, run.x, -sign) # Nil
             THEN Goes(m, [run EXCEPT !.x = avlGetChild(m, run.x, -sign)])
             ELSE Returns(m, run, OwnerOf(m, run.x))
        ELSE IF run.x # Nil /\ run.y = avlGetChild(m, run.x, sign)
             THEN Goes(m, [run EXCEPT !.y = run.x,
                                      !.x = avlGetParent(m, run.x)])
             ELSE Returns(m, run, OwnerOf(m, run.x))

\* AvlTreeFirstInPostOrder (x is first) and AvlTreeNextInPostOrder (it is
\* prev, its parent is prevParent, x is next); "leaf" is the loop of either.
PostOrderStep(m, run) ==
    IF run.ph = "entry"
    THEN IF run.fn = "postfirst"
         THEN IF m.root # Nil
              THEN Goes(m, [run EXCEPT !.ph = "leaf", !.x = m.root])
              ELSE Returns(m, run, Nil)
         ELSE LET next == avlGetParent(m, run.it)
              IN  IF next # Nil /\ run.it = m.left[next] /\ m.right[next] # Nil
                  THEN Goes(m, [run EXCEPT !.ph = "leaf", !.x = m.right[next]])
                  ELSE Returns(m, run, OwnerOf(m, next))
    ELSE IF m.left[run.x] # Nil \/ m.right[run.x] # Nil
         THEN IF m.left[run.x] # Nil
              THEN Goes(m, [run EXCEPT !.x = m.left[run.x]])
              ELSE Goes(m, [run EXCEPT !.x = m.right[run.x]])
         ELSE Returns(m, run, OwnerOf(m, run.x))

\* AvlTreeInsert: "descend" is its loop (cp is curPtr, x is cur), "ascend"
\* the loop of avlTreeRebalanceAfterInsert (x is parent on entry to an
\* iteration).  The iteration of "descend" that finds the slot empty goes on
\* to the loop of avlTreeRebalanceAfterInsert.
AvlTreeInsertStep(m, run) ==
    LET item == run.it
    IN  IF run.ph = "entry"
        THEN Goes(m, [run EXCEPT !.ph = "descend", !.cp = <<Nil, 0>>,
                                 !.x = Nil])
        ELSE IF run.ph = "descend"
        THEN LET c == SlotValue(m, run.cp)
             IN  IF c # Nil
                 THEN LET res == cmpNameNode(item, m.owner[c])
                      IN  IF res < 0
                          THEN Goes(m, [run EXCEPT !.cp = <<c, -1>>, !.x = c])
                          ELSE IF res > 0
                          THEN Goes(m, [run EXCEPT !.cp = <<c, 1>>, !.x = c])
                          ELSE Returns(m, run, m.owner[c])
                 ELSE LET m1 == IF run.cp[1] = Nil
                                THEN [m EXCEPT !.root = item]
                                ELSE avlSetChild(m, run.cp[1], run.cp[2], item)
                          m2 == [avlSetBalance(
                                     [m1 EXCEPT !.parent[item] = run.x],
                                     item, 1)
                                 EXCEPT !.owner[item] = item]
                          m3 == [m2 EXCEPT !.left[item] = Nil,
                                           !.right[item] = Nil]
                          p  == avlGetParent(m3, item)
                          m4 == Note(m3, <<"linked", item, m3.left[item],
                                   m3.right[item], p,
                                   avlGetBalanceFactor(m3, item),
                                   m3.owner[item],
                                   IF p = Nil THEN m3.root
                                   ELSE IF cmpNameNode(m3.owner[item],
                                                       m3.owner[p]) < 0
                                   THEN m3.left[p] ELSE m3.right[p]>>)
                          m5 == IF item = m4.left[p]
                                THEN avlAdjustBalanceFactor(m4, p, -1)
                                ELSE avlAdjustBalanceFactor(m4, p, 1)
                          m6 == Note(m5, <<"first", p,
                                           avlGetBalanceFactor(m5, p)>>)
                      IN  IF p = Nil THEN Returns(m4, run, Nil)
                          ELSE IF avlGetBalanceFactor(m6, p) = 0
                          THEN Returns(m6, run, Nil)
                          ELSE Goes(m6, [run EXCEPT !.ph = "ascend", !.x = p])
        ELSE LET node == run.x
                 p    == avlGetParent(m, node)
             IN  IF p = Nil THEN Returns(m, run, Nil)
                 ELSE LET r == IF node = m.left[p]
                               THEN avlHandleSubtreeGrowth(m, node, p, -1)
                               ELSE avlHandleSubtreeGrowth(m, node, p, 1)
                      IN  IF r.done THEN Returns(r.m, run, Nil)
                          ELSE Goes(r.m, [run EXCEPT !.x = p])

\* The statements of avlTreeSwapWithSuccessor after its if: Y takes the left
\* child, the parent, the balance and the place of X.
SwapTail(m, X, Y) ==
    LET m2 == [m EXCEPT !.left[Y] = m.left[X]]
        m3 == avlSetParent(m2, m2.left[X], Y)
        m4 == avlSetBalance([m3 EXCEPT !.parent[Y] = m3.parent[X]],
                            Y, m3.balance[X])
    IN  avlReplaceChild(m4, avlGetParent(m4, X), X, Y)

\* AvlTreeRemove: "successor" is the loop of avlTreeSwapWithSuccessor (x is
\* Y on entry to an iteration), "shrink" the loop of AvlTreeRemove (x is
\* parent, ld is leftDeleted).
AvlTreeRemoveStep(m, run) ==
    LET node == run.it
    IN  IF run.ph = "entry"
        THEN IF m.left[node] # Nil /\ m.right[node] # Nil
             THEN LET Y == m.right[node]
                  IN  IF m.left[Y] = Nil
                      THEN Goes(SwapTail(m, node, Y),
                                [run EXCEPT !.ph = "shrink", !.x = Y,
                                            !.ld = FALSE])
                      ELSE Goes(m, [run EXCEPT !.ph = "successor", !.x = Y])
             ELSE LET child == IF m.left[node] # Nil THEN m.left[node]
                               ELSE m.right[node]
                      p     == avlGetParent(m, node)
                  IN  IF p # Nil
                      THEN LET isLeft == node = m.left[p]
                               m1 == IF isLeft
                                     THEN [m EXCEPT !.left[p] = child]
                                     ELSE [m EXCEPT !.right[p] = child]
                               m2 == IF child # Nil
                                     THEN avlSetParent(m1, child, p) ELSE m1
                           IN  Goes(m2, [run EXCEPT !.ph = "shrink", !.x = p,
                                                    !.ld = isLeft])
                      ELSE IF child # Nil
                      THEN Returns([avlSetParent(m, child, p)
                                       EXCEPT !.root = child], run, Nil)
                      ELSE IF m.root # node
                      THEN Returns([m EXCEPT !.panic = TRUE], run, Nil)
                      ELSE Returns([m EXCEPT !.root = child], run, Nil)
        ELSE IF run.ph = "successor"
        THEN LET Q == run.x
                 Y == m.left[run.x]
             IN  IF m.left[Y] = Nil
                 THEN LET a == [m EXCEPT !.left[Q] = m.right[Y]]
                          b == IF a.left[Q] # Nil
                               THEN avlSetParent(a, a.left[Q], Q) ELSE a
                          c == [b EXCEPT !.right[Y] = b.right[node]]
                          d == avlSetParent(c, c.right[node], Y)
                      IN  Goes(SwapTail(d, node, Y),
                               [run EXCEPT !.ph = "shrink", !.x = Q,
                                           !.ld = TRUE])
                 ELSE Goes(m, [run EXCEPT !.x = Y])
        ELSE LET r == IF run.ld
                      THEN avlHandleSubtreeShrink(m, run.x, 1, run.ld)
                      ELSE avlHandleSubtreeShrink(m, run.x, -1, run.ld)
             IN  IF r.ret = Nil THEN Returns(r.m, run, Nil)
                 ELSE Goes(r.m, [run EXCEPT !.x = r.ret,
                                            !.ld = r.leftDeleted])

\* The step of the function that run is a call of.
StepOf(m, run) ==
    IF run.fn = "lookup" THEN AvlTreeLookupStep(m, run)
    ELSE IF run.fn \in {"first", "last", "next", "prev"}
    THEN InOrderStep(m, run)
    ELSE IF run.fn \in {"postfirst", "postnext"} THEN PostOrderStep(m, run)
    ELSE IF run.fn = "insert" THEN AvlTreeInsertStep(m, run)
    ELSE AvlTreeRemoveStep(m, run)

---------------------------------------------------------------------------
\* State machine

\* What the last call was, on what, and what it returned.
\* trace is the record of what an insertion or a removal did.
Traced(op, arg, ret, m) ==
    [op |-> op, arg |-> arg, ret |-> ret, seq |-> <<>>, trace |-> m.trace,
     writes |-> m.writes]

Call(op, arg, ret, seq) ==
    [op |-> op, arg |-> arg, ret |-> ret, seq |-> seq, trace |-> <<>>,
     writes |-> <<>>]

\* Writes a memory back to the program's state.
Store(m) ==
    /\ left' = m.left
    /\ right' = m.right
    /\ parent' = m.parent
    /\ owner' = m.owner
    /\ balance' = m.balance
    /\ root' = m.root
    /\ panicked' = m.panic

\* The call has returned r.ret and left the memory r.m.
Finished(op, arg, r) ==
    /\ Store(r.m)
    /\ last' = Traced(op, arg, r.ret, r.m)

\* The caller drops the record of node: a new, zero-initialised one takes its
\* identity.
Drop(m, node) ==
    [m EXCEPT !.left[node] = Nil, !.right[node] = Nil, !.parent[node] = Nil,
              !.owner[node] = Nil, !.balance[node] = 0]

\* The caller still runs: no panic, and no call that broke the contract.
Alive ==
    ~panicked /\ last.op \notin {"removeUnlinked", "doubleRotate", "rotate"}

\* NewAvlTree and zero-initialised nodes.
Init ==
    /\ left = [n \in Nodes |-> Nil]
    /\ right = [n \in Nodes |-> Nil]
    /\ parent = [n \in Nodes |-> Nil]
    /\ owner = [n \in Nodes |-> Nil]
    /\ balance = [n \in Nodes |-> 0]
    /\ root = Nil
    /\ linked = {}
    /\ panicked = FALSE
    /\ last = Call("new", Nil, Nil, <<>>)

\* tree.AvlTreeInsert(&nodes[i].avlHeader, &nodes[i], cmpNameNode)
Inserted(item, r) ==
    /\ Finished("insert", item, r)
    /\ linked' = IF r.ret = Nil THEN linked \cup {item} ELSE linked

Insert(item) ==
    /\ Alive
    /\ Inserted(item, AvlTreeInsert(Mem, item, item))

\* tree.AvlTreeRemove(&nodes[i].avlHeader) of a node that is in the tree.
\* The removed node keeps whatever the removal left in its fields.
Remove(node) ==
    /\ Alive
    /\ node \in linked
    /\ Finished("remove", node, [m |-> AvlTreeRemove(Mem, node), ret |-> Nil])
    /\ linked' = linked \ {node}

\* The same call, after which the caller drops the removed record: the
\* record that later takes its identity is a new, zero-initialised one.
RemoveAndDrop(node) ==
    /\ Alive
    /\ node \in linked
    /\ Finished("remove", node,
                [m |-> Drop(AvlTreeRemove(Mem, node), node), ret |-> Nil])
    /\ linked' = linked \ {node}

\* tree.AvlTreeLookup(nodes[i].hash, cmpNameKey)
Lookup(key) ==
    /\ Alive
    /\ last' = Call("lookup", key, AvlTreeLookup(Mem, key), <<>>)
    /\ Store(AvlTreeLookupLeaves(Mem, key))
    /\ UNCHANGED linked

\* AvlTreeFirstInOrder, then AvlTreeNextInOrder until it returns nil
Forward ==
    /\ Alive
    /\ last' = Call("forward", Nil, Nil, ForwardWalk(Mem))
    /\ Store(InOrderLeaves(Mem))
    /\ UNCHANGED linked

\* AvlTreeLastInOrder, then AvlTreePrevInOrder until it returns nil
Backward ==
    /\ Alive
    /\ last' = Call("backward", Nil, Nil, BackwardWalk(Mem))
    /\ Store(InOrderLeaves(Mem))
    /\ UNCHANGED linked

\* AvlTreeFirstInPostOrder, then AvlTreeNextInPostOrder while the node
\* returned has a parent
PostOrder ==
    /\ Alive
    /\ last' = Call("postorder", Nil, Nil, PostOrderWalk(Mem))
    /\ Store(PostOrderLeaves(Mem))
    /\ UNCHANGED linked

\* The four accessors on a node of the tree; the values returned are kept in
\* the order parent, left child, right child, balance factor.
Access(node) ==
    /\ Alive
    /\ node \in linked
    /\ last' = Call("access", node,
                    <<AvlGetParent(Mem, node), AvlLeftChild(Mem, node),
                      AvlRightChild(Mem, node), AvlGetBalanceFactor(Mem, node)>>,
                    <<>>)
    /\ Store(AccessorsLeave(Mem, node))
    /\ UNCHANGED linked

\* tree.AvlTreeRemove of a node that is not in the tree and has no children:
\* never inserted, or removed before (its fields are what that removal left,
\* its parent still in the tree).
RemoveUnlinked(node) ==
    /\ Alive
    /\ node \notin linked
    /\ left[node] = Nil /\ right[node] = Nil
    /\ parent[node] \in linked \cup {Nil}
    /\ Store(AvlTreeRemove(Mem, node))
    /\ linked' = linked
    /\ last' = Call("removeUnlinked", node, Nil, <<>>)

Next ==
    \/ \E item \in Nodes : Insert(item)
    \/ \E node \in Nodes : RemoveAndDrop(node)
    \/ \E key \in Keys : Lookup(key)
    \/ Forward
    \/ Backward
    \/ PostOrder
    \/ \E node \in Nodes : Access(node)

Spec == Init /\ [][Next]_vars

\* The caller reuses removed records as they are.
NextStale ==
    \/ \E item \in StaleNodes : Insert(item)
    \/ \E node \in StaleNodes : Remove(node)
    \/ \E key \in Keys : Lookup(key)
    \/ Forward
    \/ Backward

SpecStale == Init /\ [][NextStale]_vars

\* The caller reuses removed nodes as they are, and under any owner:
\* AvlTreeInsert(item, owner, cmp) of a node that is not in the tree, with the
\* record own as owner, whose key the comparison reads.  last.seq keeps what
\* the fields of the node were on entry: left, right, parent, balance, owner.
InsertedAs(item, own, r) ==
    /\ Store(r.m)
    /\ linked' = IF r.ret = Nil THEN linked \cup {item} ELSE linked
    /\ last' = [op |-> "insertAs", arg |-> <<item, own>>, ret |-> r.ret,
                seq |-> <<left[item], right[item], parent[item],
                          balance[item], owner[item]>>,
                trace |-> r.m.trace, writes |-> r.m.writes]

InsertAs(item, own) ==
    /\ Alive
    /\ item \notin linked
    /\ InsertedAs(item, own, AvlTreeInsert(Mem, item, own))

NextReuse ==
    \/ \E item \in ReuseNodes, own \in ReuseNodes : InsertAs(item, own)
    \/ \E node \in ReuseNodes : Remove(node)

SpecReuse == Init /\ [][NextReuse]_vars

\* The caller may also remove a node that is not in the tree.
NextMisuse ==
    \/ \E item \in StaleNodes : Insert(item)
    \/ \E node \in StaleNodes : Remove(node)
    \/ \E node \in StaleNodes : RemoveUnlinked(node)

SpecMisuse == Init /\ [][NextMisuse]_vars

\* The round trip: records with distinct keys are inserted, then removed,
\* and once all are removed their keys are looked up.
NextRoundTrip ==
    \/ \E item \in RoundTripNodes :
          /\ last.op \in {"new", "insert"}
          /\ \A n \in linked : Key(n) # Key(item)
          /\ Insert(item)
    \/ \E node \in RoundTripNodes : Remove(node)
    \/ \E key \in Keys :
          /\ last.op \in {"remove", "lookup"}
          /\ linked = {}
          /\ Lookup(key)

SpecRoundTrip == Init /\ [][NextRoundTrip]_vars

\* avlDoDoubleRotate called by itself at a node A of the tree whose child B on
\* the other side than sign has a child E on the sign side.  Nothing is done
\* with the tree it leaves, which need not be balanced.
DoubleRotate(A, sign) ==
    /\ Alive
    /\ A \in linked
    /\ avlGetChild(Mem, A, -sign) # Nil
    /\ avlGetChild(Mem, avlGetChild(Mem, A, -sign), sign) # Nil
    /\ Finished("doubleRotate", <<avlGetChild(Mem, A, -sign), A, sign>>,
                avlDoDoubleRotate(Mem, avlGetChild(Mem, A, -sign), A, sign))
    /\ UNCHANGED linked

\* avlRotate called by itself at a node A of the tree that has a child B on
\* the other side than sign.  Nothing is done with the tree it leaves, which
\* need not be balanced.
Rotate(A, sign) ==
    /\ Alive
    /\ A \in linked
    /\ avlGetChild(Mem, A, -sign) # Nil
    /\ Finished("rotate", <<A, sign>>,
                [m |-> avlRotate(Mem, A, sign), ret |-> Nil])
    /\ UNCHANGED linked

NextRotate ==
    \/ \E item \in Keys : Insert(item)
    \/ \E node \in Keys : RemoveAndDrop(node)
    \/ \E A \in Keys, sign \in {-1, 1} : DoubleRotate(A, sign)
    \/ \E A \in Keys, sign \in {-1, 1} : Rotate(A, sign)

SpecRotate == Init /\ [][NextRotate]_vars

\* The calls run one loop iteration at a time.  While a call runs, last.op is
\* "running", last.arg is the run and last.trace what the call has noted so
\* far; when it returns, last is what the one-step actions above leave.
Running == last.op = "running"

RunOf(fn, it, s) ==
    [fn |-> fn, ph |-> "entry", it |-> it, s |-> s, x |-> Nil, y |-> Nil,
     cp |-> <<Nil, 0>>, ld |-> FALSE, m0 |-> Mem]

Begin(fn, it, s) ==
    /\ Alive
    /\ ~Running
    /\ last' = [op |-> "running", arg |-> RunOf(fn, it, s), ret |-> Nil,
                seq |-> <<>>, trace |-> <<>>, writes |-> <<>>]
    /\ UNCHANGED <<left, right, parent, owner, balance, root, linked, panicked>>

BeginLookup(key) == Begin("lookup", key, 0)

BeginFirstLast(sign) == Begin(IF sign < 0 THEN "first" ELSE "last", Nil, sign)

BeginNextPrev(node, sign) ==
    /\ node \in linked
    /\ Begin(IF sign > 0 THEN "next" ELSE "prev", node, sign)

BeginPostFirst == Begin("postfirst", Nil, 0)

BeginPostNext(node) == node \in linked /\ Begin("postnext", node, 0)

BeginInsert(item) == Begin("insert", item, 0)

BeginRemove(node) == node \in linked /\ Begin("remove", node, 0)

\* One iteration of the call in progress, or its return.  The record of a
\* node that has been removed is cleared, as in RemoveAndDrop.
Stepped(run, r) ==
    /\ Store(IF r.done /\ run.fn = "remove" THEN Drop(r.m, run.it) ELSE r.m)
    /\ last' = IF r.done
               THEN Traced(run.fn, run.it, r.ret, r.m)
               ELSE [last EXCEPT !.arg = r.run, !.trace = r.m.trace,
                                 !.writes = r.m.writes]
    /\ linked' = IF ~r.done THEN linked
                 ELSE IF run.fn = "insert" /\ r.ret = Nil
                 THEN linked \cup {run.it}
                 ELSE IF run.fn = "remove" THEN linked \ {run.it}
                 ELSE linked

Step(fns) ==
    /\ Running
    /\ last.arg.fn \in fns
    /\ \E r \in {StepOf([Mem EXCEPT !.trace = last.trace,
                                     !.writes = last.writes], last.arg)} :
          Stepped(last.arg, r)

StepLookup == Step({"lookup"})

StepInOrder == Step({"first", "last", "next", "prev"})

StepPostOrder == Step({"postfirst", "postnext"})

StepInsert == Step({"insert"})

StepRemove == Step({"remove"})

StepRun ==
    StepLookup \/ StepInOrder \/ StepPostOrder \/ StepInsert \/ StepRemove

NextRun ==
    \/ \E key \in RunNodes : BeginLookup(key)
    \/ \E sign \in {-1, 1} : BeginFirstLast(sign)
    \/ \E node \in RunNodes, sign \in {-1, 1} : BeginNextPrev(node, sign)
    \/ BeginPostFirst
    \/ \E node \in RunNodes : BeginPostNext(node)
    \/ \E item \in RunNodes : BeginInsert(item)
    \/ \E node \in RunNodes : BeginRemove(node)
    \/ StepRun

\* A call that has begun goes on: the program is sequential and nothing
\* suspends it.
SpecRun == Init /\ [][NextRun]_vars /\ WF_vars(StepRun)

\* A caller with NumKeys + NumDeep records of distinct keys.  It inserts
\* twelve of them in the order of DeepScript, which names a record by the
\* rank of its key: level by level, the sparsest tree of height 5, whose
\* left subtree (7 records) is one higher than its right subtree (4
\* records).  Then it removes records in any order.
DeepScript == <<8, 5, 10, 3, 7, 9, 11, 2, 4, 6, 12, 1>>

NodeOfRank(r) == IF r <= NumKeys THEN r ELSE r + NumDup

InitDeep ==
    /\ left = [n \in 1..(NumNodes + NumDeep) |-> Nil]
    /\ right = [n \in 1..(NumNodes + NumDeep) |-> Nil]
    /\ parent = [n \in 1..(NumNodes + NumDeep) |-> Nil]
    /\ owner = [n \in 1..(NumNodes + NumDeep) |-> Nil]
    /\ balance = [n \in 1..(NumNodes + NumDeep) |-> 0]
    /\ root = Nil
    /\ linked = {}
    /\ panicked = FALSE
    /\ last = Call("new", Nil, Nil, <<>>)

InsertDeep(item) ==
    /\ last.op \in {"new", "insert"}
    /\ Cardinality(linked) < Len(DeepScript)
    /\ item = NodeOfRank(DeepScript[Cardinality(linked) + 1])
    /\ Insert(item)

NextDeep ==
    \/ \E item \in DeepNodes : InsertDeep(item)
    \/ \E node \in DeepNodes : RemoveAndDrop(node)

SpecDeep == InitDeep /\ [][NextDeep]_vars

\* The caller inserts the keys 1, 2, ... in increasing order into the empty
\* tree and then only removes.
InsertAscending(item) ==
    /\ last.op \in {"new", "insert"}
    /\ item = Cardinality(linked) + 1
    /\ Insert(item)

NextAscending ==
    \/ \E item \in Keys : InsertAscending(item)
    \/ \E node \in Keys : Remove(node)

SpecAscending == Init /\ [][NextAscending]_vars

---------------------------------------------------------------------------
\* Vocabulary of the properties: what a tree is, independently of the
\* routines above.

Max(a, b) == IF a >= b THEN a ELSE b

ChildrenOf(m, S) ==
    ({m.left[n] : n \in S} \cup {m.right[n] : n \in S}) \ {Nil}

\* The nodes reachable from the nodes of S by left and right references.
RECURSIVE ReachFrom(_, _)
ReachFrom(m, S) ==
    LET T == S \cup ChildrenOf(m, S)
    IN  IF T = S THEN S ELSE ReachFrom(m, T)

Subtree(m, n) == IF n = Nil THEN {} ELSE ReachFrom(m, {n})

\* The nodes of the tree: those reachable from the root.
InTree(m) == Subtree(m, m.root)

\* Height of the subtree at n, counted to a depth of d at most.
RECURSIVE Height(_, _, _)
Height(m, n, d) ==
    IF n = Nil \/ d = 0 THEN 0
    ELSE 1 + Max(Height(m, m.left[n], d - 1), Height(m, m.right[n], d - 1))

HeightOf(m, n) == Height(m, n, NumNodes + 1)

\* Whether following parent references from n arrives at the root within d
\* steps.
RECURSIVE ClimbsToRoot(_, _, _)
ClimbsToRoot(m, n, d) ==
    IF n = m.root THEN m.parent[n] = Nil
    ELSE IF d = 0 \/ m.parent[n] = Nil THEN FALSE
    ELSE ClimbsToRoot(m, m.parent[n], d - 1)

\* The record the caller holds in the tree under a key, or Nil.
Stored(key) ==
    IF \E n \in linked : Key(n) = key
    THEN CHOOSE n \in linked : Key(n) = key
    ELSE Nil

\* The records of S in increasing key order.
RECURSIVE Sorted(_)
Sorted(S) ==
    IF S = {} THEN <<>>
    ELSE LET lo == CHOOSE n \in S : \A x \in S : Key(n) <= Key(x)
         IN  <<lo>> \o Sorted(S \ {lo})

Reverse(q) == [i \in 1..Len(q) |-> q[Len(q) + 1 - i]]

\* The tree proper: what AvlTreeInsert of a key already present must leave
\* alone.
tree == <<left, right, parent, owner, balance, root>>

\* The nodes above n: its parent, the parent of its parent, ...
RECURSIVE AncestorsOf(_, _)
AncestorsOf(m, n) ==
    IF m.parent[n] = Nil THEN {}
    ELSE {m.parent[n]} \cup AncestorsOf(m, m.parent[n])

\* The number of events of a trace that carry the tag.
Count(trace, tag) ==
    Cardinality({i \in 1..Len(trace) : trace[i][1] = tag})

---------------------------------------------------------------------------
\* C1: after every completed insert or remove, at every node of the tree the
\* heights of the two subtrees differ by at most 1 and AvlGetBalanceFactor is
\* height(right) - height(left).
C1_AvlBalance ==
    \A n \in InTree(Mem) :
        LET d == HeightOf(Mem, right[n]) - HeightOf(Mem, left[n])
        IN  /\ d \in {-1, 0, 1}
            /\ AvlGetBalanceFactor(Mem, n) = d

\* A removal has just left a tree of height 3 or more with a leaning node.
C1_Witness ==
    /\ last.op = "remove"
    /\ HeightOf(Mem, root) >= 3
    /\ \E n \in InTree(Mem) : AvlGetBalanceFactor(Mem, n) # 0

\* C2: after every completed insert or remove, every node of the left subtree
\* of a node compares less than it and every node of its right subtree
\* compares greater.
C2_BstOrdering ==
    \A n \in InTree(Mem) :
        /\ \A x \in Subtree(Mem, left[n]) : cmpNameNode(owner[x], owner[n]) < 0
        /\ \A x \in Subtree(Mem, right[n]) : cmpNameNode(owner[x], owner[n]) > 0

\* A removal has just left a tree whose root has both subtrees, one of them
\* of two nodes or more.
C2_Witness ==
    /\ last.op = "remove"
    /\ root # Nil
    /\ left[root] # Nil /\ right[root] # Nil
    /\ Cardinality(InTree(Mem)) >= 4

\* C3: AvlTreeLookup of a key returns the owner stored under it exactly when
\* the key was inserted and not removed since, and nil otherwise; the nodes of
\* the tree are exactly the records inserted and not removed.
C3_LookupRefinesSet ==
    /\ InTree(Mem) = linked
    /\ \A key \in Keys : AvlTreeLookup(Mem, key) = Stored(key)
    /\ last.op = "lookup" => last.ret = Stored(last.arg)

\* A lookup has just found the record that repeats key 1, in a tree of three
\* records or more.
C3_Witness ==
    /\ last.op = "lookup"
    /\ last.ret = NumKeys + 1
    /\ Cardinality(linked) >= 3

\* C4: after every completed insert or remove, parent and child references
\* agree both ways and the root has a nil parent.
C4_ParentConsistency ==
    /\ root # Nil => parent[root] = Nil
    /\ \A n \in InTree(Mem) :
        /\ left[n] # Nil => parent[left[n]] = n
        /\ right[n] # Nil => parent[right[n]] = n
        /\ parent[n] # Nil => left[parent[n]] = n \/ right[parent[n]] = n
        /\ parent[n] = Nil => n = root

\* A removal has just left a tree of five nodes or more.
C4_Witness ==
    /\ last.op = "remove"
    /\ Cardinality(InTree(Mem)) >= 5

\* C5: after every completed insert or remove the structure is a simple tree:
\* no node is below itself, no node is reached from the root by two paths, and
\* parent references lead from every node to the root.
C5_SimpleTree ==
    \A n \in InTree(Mem) :
        /\ n \notin ReachFrom(Mem, ChildrenOf(Mem, {n}))
        /\ left[n] # Nil => left[n] # right[n]
        /\ Subtree(Mem, left[n]) \cap Subtree(Mem, right[n]) = {}
        /\ ClimbsToRoot(Mem, n, NumNodes)

\* An insertion has just left a tree of height 4.
C5_Witness ==
    /\ last.op = "insert"
    /\ last.ret = Nil
    /\ HeightOf(Mem, root) >= 4

\* C6: AvlTreeInsert of a record whose key equals that of a record in the
\* tree returns that record's owner and changes neither the root nor any field
\* of any node, so the in-order sequence and the node count stay as they were.
C6_DuplicateInsertLeavesTree ==
    [][(last'.op = "insert" /\ Stored(Key(last'.arg)) # Nil) =>
          /\ last'.ret = owner[Stored(Key(last'.arg))]
          /\ last'.ret = Stored(Key(last'.arg))
          /\ UNCHANGED tree
          /\ linked' = linked]_vars

\* An insertion has just returned the owner of another record with the same
\* key, in a tree of three records or more.
C6_Witness ==
    /\ last.op = "insert"
    /\ last.ret # Nil
    /\ last.ret # last.arg
    /\ Key(last.ret) = Key(last.arg)
    /\ Cardinality(linked) >= 3

\* C7: AvlTreeRemove of a node that has no children and is not in the tree
\* panics.
C7_UnlinkedRemovePanics == last.op = "removeUnlinked" => panicked

\* C8: once every inserted record has been removed the root is nil and the
\* lookup of every key returns nil.
C8_RoundTrip ==
    (linked = {} /\ last.op \in {"remove", "lookup"}) =>
        /\ root = Nil
        /\ \A key \in Keys : AvlTreeLookup(Mem, key) = Nil
        /\ last.op = "lookup" => last.ret = Nil

\* NumRoundTrip records were inserted and all removed, and a lookup followed.
C8_Witness ==
    /\ linked = {}
    /\ last.op = "lookup"
    /\ \A n \in RoundTripNodes : owner[n] = n

\* C9: AvlTreeFirstInOrder followed by AvlTreeNextInOrder until nil visits
\* exactly the records in the tree, once each, in increasing key order; on an
\* empty tree AvlTreeFirstInOrder returns nil.
C9_ForwardTraversal ==
    /\ ForwardWalk(Mem) = Sorted(linked)
    /\ \A i \in 1..(Len(ForwardWalk(Mem)) - 1) :
          cmpNameNode(ForwardWalk(Mem)[i], ForwardWalk(Mem)[i + 1]) < 0
    /\ linked = {} => AvlTreeFirstInOrder(Mem) = Nil
    /\ last.op = "forward" => last.seq = Sorted(linked)

\* A forward walk has just visited a tree of height 4.
C9_Witness ==
    /\ last.op = "forward"
    /\ Len(last.seq) >= 5
    /\ HeightOf(Mem, root) >= 4

\* C10: AvlTreeLastInOrder followed by AvlTreePrevInOrder until nil visits
\* exactly the records in the tree, once each, in decreasing key order, the
\* reverse of the forward sequence.
C10_BackwardTraversal ==
    /\ BackwardWalk(Mem) = Reverse(Sorted(linked))
    /\ \A i \in 1..(Len(BackwardWalk(Mem)) - 1) :
          cmpNameNode(BackwardWalk(Mem)[i], BackwardWalk(Mem)[i + 1]) > 0
    /\ BackwardWalk(Mem) = Reverse(ForwardWalk(Mem))
    /\ last.op = "backward" => last.seq = Reverse(Sorted(linked))

\* A backward walk has just visited a tree of height 4.
C10_Witness ==
    /\ last.op = "backward"
    /\ Len(last.seq) >= 5
    /\ HeightOf(Mem, root) >= 4

\* C11: the post-order walk (AvlTreeFirstInPostOrder, then
\* AvlTreeNextInPostOrder(cur, parent of cur) while cur has a parent) visits
\* every record of the tree exactly once, visits no node before its children,
\* is never handed nil while the previous node had a parent, and ends at the
\* root.
C11_PostOrderWalk ==
    LET w == PostOrderWalk(Mem)
    IN  /\ \A i \in 1..Len(w) : w[i] # Nil
        /\ Len(w) = Cardinality(linked)
        /\ {w[i] : i \in 1..Len(w)} = linked
        /\ \A i \in 1..Len(w) :
              \A c \in {left[w[i]], right[w[i]]} \ {Nil} :
                 \E j \in 1..(i - 1) : w[j] = c
        /\ linked # {} => w[Len(w)] = root
        /\ last.op = "postorder" => last.seq = w

\* A post-order walk has just visited a tree of height 4 in which a node with
\* two children has a right subtree of more than one node.
C11_Witness ==
    /\ last.op = "postorder"
    /\ Len(last.seq) >= 7
    /\ HeightOf(Mem, root) >= 4
    /\ \E n \in linked : left[n] # Nil /\ right[n] # Nil
                          /\ left[right[n]] # Nil

\* C12: AvlTreeInsert of a record whose key is not in the tree returns nil and
\* links the new node as a leaf, with balance factor 0 and its owner set,
\* before it rebalances: in the empty slot its descent ended at, under the
\* node the descent ended at.  It returns a non-nil value only when a record
\* with an equal key is in the tree.  The fields of the new node are those
\* noted once avlTreeRebalanceAfterInsert has cleared its children and before
\* any balance is adjusted.
C12_InsertLinksLeaf ==
    [][last'.op = "insert" =>
         LET item   == last'.arg
             absent == \A n \in linked : Key(n) # Key(item)
             d      == InsertDescend(Mem, <<Nil, 0>>, Nil, item)
         IN  /\ (last'.ret = Nil) <=> absent
             /\ last'.ret # Nil => /\ last'.ret \in linked
                                   /\ Key(last'.ret) = Key(item)
             /\ absent =>
                  /\ Len(last'.trace) >= 1
                  /\ last'.trace[1] =
                        <<"linked", item, Nil, Nil, d.cur, 0, item, item>>
                  /\ d.cur \in linked \cup {Nil}
                  /\ SlotValue(Mem, d.curPtr) = Nil
                  /\ linked' = linked \cup {item}
                  /\ owner'[item] = item
    ]_vars

\* An insertion has just returned nil for a record that became a leaf under a
\* node of the tree, and a rotation followed.
C12_Witness ==
    /\ last.op = "insert"
    /\ last.ret = Nil
    /\ Len(last.trace) >= 4
    /\ last.trace[1][1] = "linked"
    /\ last.trace[1][5] # Nil
    /\ \E i \in 1..Len(last.trace) : last.trace[i][1] = "rotate"

\* C13: inserting the keys 1, 2, 3 in that order into an empty tree performs
\* exactly one single rotation and no double rotation (none for 1 and 2, one
\* single rotation for 3) and leaves root 2 with left child 1 and right child
\* 3, all three with balance factor 0.
C13_InsertOneTwoThree ==
    /\ (last.op = "insert" /\ last.arg \in {1, 2}) =>
          /\ Count(last.trace, "rotate") = 0
          /\ Count(last.trace, "double") = 0
    /\ (last.op = "insert" /\ last.arg = 3) =>
          /\ linked = {1, 2, 3}
          /\ Count(last.trace, "rotate") = 1
          /\ Count(last.trace, "double") = 0
          /\ root = 2 /\ parent[2] = Nil
          /\ left[2] = 1 /\ right[2] = 3
          /\ parent[1] = 2 /\ parent[3] = 2
          /\ left[1] = Nil /\ right[1] = Nil
          /\ left[3] = Nil /\ right[3] = Nil
          /\ \A n \in {1, 2, 3} : AvlGetBalanceFactor(Mem, n) = 0

\* Key 3 has just been inserted after keys 1 and 2.
C13_Witness ==
    /\ last.op = "insert"
    /\ last.arg = 3
    /\ linked = {1, 2, 3}
    /\ Count(last.trace, "rotate") = 1

\* C14: after the keys 1..7 are inserted in increasing order, key 4 has two
\* children; removing it then leaves the in-order sequence 1,2,3,5,6,7 and
\* the AVL balance invariant at every node.
C14_RemoveFourOfSeven ==
    /\ (last.op = "insert" /\ last.arg = 7) =>
          /\ linked = 1..7
          /\ left[4] # Nil /\ right[4] # Nil
    /\ (last.op = "remove" /\ last.arg = 4 /\ linked = (1..7) \ {4}) =>
          /\ ForwardWalk(Mem) = <<1, 2, 3, 5, 6, 7>>
          /\ InTree(Mem) = (1..7) \ {4}
          /\ \A n \in InTree(Mem) :
                /\ HeightOf(Mem, right[n]) - HeightOf(Mem, left[n])
                      \in {-1, 0, 1}
                /\ AvlGetBalanceFactor(Mem, n) =
                      HeightOf(Mem, right[n]) - HeightOf(Mem, left[n])

\* Key 4 has just been removed from the tree built from 1..7.
C14_Witness ==
    /\ last.op = "remove"
    /\ last.arg = 4
    /\ linked = (1..7) \ {4}
    /\ Len(last.trace) >= 1

C17_OneRebalancePerInsert ==
    [][last'.op = "insert" =>
         LET t   == last'.trace
             rot == {i \in 1..Len(t) : t[i][1] \in {"rotate", "double"}}
         IN  /\ Cardinality(rot) <= 1
             /\ \A i \in 1..Len(t) :
                   (t[i][1] = "grown" /\ ~t[i][3]) =>
                       /\ t[i - 1][1] = "growth"
                       /\ \A j \in 1..i : j \notin rot
             /\ \A i \in rot :
                   /\ Len(t) = i + 1
                   /\ t[i - 1][1] = "growth" /\ t[i - 1][2] = t[i][2]
                   /\ t[i + 1] = <<"grown", t[i][2], TRUE>>
                   /\ \A n \in AncestorsOf(Mem, t[i][2]) :
                         balance'[n] = balance[n]
    ]_vars

\* An insertion has just rotated at a node that was not the root.
C17_Witness ==
    /\ last.op = "insert"
    /\ Count(last.trace, "rotate") + Count(last.trace, "double") = 1
    /\ \E i \in 1..Len(last.trace) :
          /\ last.trace[i][1] \in {"rotate", "double"}
          /\ parent[parent[last.trace[i][2]]] # Nil

\* C19: in the insertion ascent, whenever the balance factor of an ancestor
\* would become +2 or -2, the child the ascent came from has balance factor
\* +1 or -1, never 0.  The parent of the new node, whose child has balance
\* factor 0, never gets +2 or -2.
C19_GrowthChildNotNeutral ==
    last.op = "insert" =>
        \A i \in 1..Len(last.trace) :
            /\ last.trace[i][1] = "first" => last.trace[i][3] \in {-1, 0, 1}
            /\ last.trace[i][1] = "growth" =>
                  /\ last.trace[i][4] \in {-2, -1, 0, 1, 2}
                  /\ last.trace[i][4] \in {-2, 2} =>
                        last.trace[i][5] \in {-1, 1}

\* An insertion has just met, not at its first call of
\* avlHandleSubtreeGrowth, an ancestor that would get +2 or -2, coming from a
\* child that was heavy on its left.
C19_Witness ==
    /\ last.op = "insert"
    /\ \E i \in 1..Len(last.trace) :
          /\ last.trace[i][1] = "growth"
          /\ last.trace[i][4] \in {-2, 2}
          /\ last.trace[i][5] = -1
          /\ Count(last.trace, "growth") >= 2

\* The "double" events of the call made last.
DoubleEvents ==
    {last.trace[i] : i \in {j \in 1..Len(last.trace) :
                               last.trace[j][1] = "double"}}

\* C18 as stated: after a double rotation at (B, A, sign), E has balance
\* factor 0 and is returned in A's former slot; A and B both have balance
\* factor 0 unless the balance factor e that E had has the polarity of sign,
\* and then exactly one of them has -e and the other 0.
C18_BothNeutralUnlessSamePolarity ==
    \A d \in DoubleEvents :
        LET sign == d[3]
            e    == d[6]
        IN  /\ d[9] = 0 /\ d[10] = d[5] /\ d[11] = d[5]
            /\ sign * e > 0 => \/ d[7] = -e /\ d[8] = 0
                               \/ d[7] = 0 /\ d[8] = -e
            /\ ~(sign * e > 0) => d[7] = 0 /\ d[8] = 0

\* C18, amended: after a double rotation at (B, A, sign), E has balance
\* factor 0 and is returned in A's former slot; A and B both have balance
\* factor 0 exactly when the balance factor e that E had is 0; otherwise
\* exactly one of them has -e and the other 0: B when e has the polarity of
\* sign, A when e has the opposite polarity.
C18_DoubleRotateBalance ==
    \A d \in DoubleEvents :
        LET sign == d[3]
            e    == d[6]
        IN  /\ e \in {-1, 0, 1}
            /\ d[9] = 0 /\ d[10] = d[5] /\ d[11] = d[5]
            /\ e = 0 => d[7] = 0 /\ d[8] = 0
            /\ sign * e > 0 => d[7] = 0 /\ d[8] = -e
            /\ sign * e < 0 => d[7] = -e /\ d[8] = 0

\* avlDoDoubleRotate has just been called by itself where e had the polarity
\* opposite to sign, and E had both children.
C18_Witness ==
    /\ last.op = "doubleRotate"
    /\ \E d \in DoubleEvents :
          /\ d[3] * d[6] < 0
          /\ d[7] = -d[6]
          /\ d[11] = root
          /\ Cardinality(linked) = NumKeys

\* C20: wherever it is applicable (B, and E on the sign side of B, exist),
\* avlDoDoubleRotate(root, B, A, sign) leaves exactly the left, right and
\* parent references and the root reference that avlRotate(root, B, -sign)
\* followed by avlRotate(root, A, +sign) leaves; the two differ only in the
\* balance factors of A, B and E, which the double rotation sets, and in
\* that it returns E.
C20_DoubleIsTwoSingles ==
    [][last'.op = "doubleRotate" =>
         LET B    == last'.arg[1]
             A    == last'.arg[2]
             sign == last'.arg[3]
             E    == avlGetChild(Mem, B, sign)
             two  == avlRotate(avlRotate(Mem, B, -sign), A, sign)
         IN  /\ left' = two.left
             /\ right' = two.right
             /\ parent' = two.parent
             /\ root' = two.root
             /\ owner' = two.owner
             /\ \A n \in Nodes \ {A, B, E} : balance'[n] = two.balance[n]
             /\ two.balance = balance
             /\ last'.ret = E
             /\ two.parent[A] = E /\ two.parent[B] = E
    ]_vars

\* avlDoDoubleRotate has just been called by itself where E had a child,
\* which went over to A or to B.
C20_Witness ==
    /\ last.op = "doubleRotate"
    /\ last.ret = root
    /\ \/ avlGetChild(Mem, last.arg[2], -last.arg[3]) # Nil
       \/ avlGetChild(Mem, last.arg[1], last.arg[3]) # Nil

\* What the call that last.arg is a call of leaves and returns when it is
\* taken as one step, from the memory m0 the call found: [m, ret].
WholeCall(run) ==
    LET m0 == run.m0
        it == run.it
    IN  IF run.fn = "insert" THEN AvlTreeInsert(m0, it, it)
        ELSE IF run.fn = "remove"
        THEN [m |-> [AvlTreeRemove(m0, it) EXCEPT
                        !.left[it] = Nil, !.right[it] = Nil,
                        !.parent[it] = Nil, !.owner[it] = Nil,
                        !.balance[it] = 0],
              ret |-> Nil]
        ELSE [m |-> m0,
              ret |-> IF run.fn = "lookup" THEN AvlTreeLookup(m0, it)
                      ELSE IF run.fn = "first" THEN AvlTreeFirstInOrder(m0)
                      ELSE IF run.fn = "last" THEN AvlTreeLastInOrder(m0)
                      ELSE IF run.fn = "next" THEN AvlTreeNextInOrder(m0, it)
                      ELSE IF run.fn = "prev" THEN AvlTreePrevInOrder(m0, it)
                      ELSE IF run.fn = "postfirst"
                      THEN AvlTreeFirstInPostOrder(m0)
                      ELSE AvlTreeNextInPostOrder(m0, it,
                                                  avlGetParent(m0, it))]

\* The ascent of the call that has just returned halted where it had to: the
\* insertion ascent right after the first avlHandleSubtreeGrowth that
\* returned true (or after the parent of the new node became balanced), and
\* otherwise only at a node without parent; the deletion ascent right after
\* the first avlHandleSubtreeShrink that returned nil, each other call of it
\* being followed by one at the node it returned.
AscentHalts ==
    LET t == last.trace
    IN  /\ last.op = "insert" =>
              \A i \in 1..Len(t) :
                 /\ t[i][1] = "first" =>
                       /\ t[i][3] = 0 => i = Len(t)
                       /\ (t[i][3] # 0 /\ i = Len(t)) => parent[t[i][2]] = Nil
                       /\ (t[i][3] # 0 /\ i < Len(t)) => t[i + 1][1] = "growth"
                 /\ t[i][1] = "grown" =>
                       /\ t[i][3] => i = Len(t)
                       /\ (~t[i][3] /\ i = Len(t)) => parent[t[i][2]] = Nil
                       /\ (~t[i][3] /\ i < Len(t)) => t[i + 1][1] = "growth"
        /\ last.op = "remove" =>
              \A i \in 1..Len(t) :
                 t[i][1] = "shrunk" =>
                    /\ t[i][3] = Nil => i = Len(t)
                    /\ t[i][3] # Nil => /\ i < Len(t)
                                        /\ t[i + 1][1] = "shrink"
                                        /\ t[i + 1][2] = t[i][3]

\* C15: every exported operation runs to completion on every tree that
\* satisfies the invariants: a call of AvlTreeInsert, of AvlTreeRemove on a
\* node of the tree, of AvlTreeLookup or of a traversal function that has
\* begun returns after finitely many loop iterations, leaving what the call
\* leaves when taken as one step; the insertion and deletion ascents halt at
\* the first node whose balance resolves or at a node without parent.
C15_RunsToCompletion ==
    /\ Running ~> ~Running
    /\ []AscentHalts
    /\ [][(Running /\ ~Running') =>
             LET w == WholeCall(last.arg)
             IN  /\ left' = w.m.left /\ right' = w.m.right
                 /\ parent' = w.m.parent /\ owner' = w.m.owner
                 /\ balance' = w.m.balance /\ root' = w.m.root
                 /\ panicked' = w.m.panic
                 /\ last'.ret = w.ret
                 /\ last'.trace = w.m.trace
         ]_vars

\* A removal run one iteration at a time has just returned after two calls
\* of avlHandleSubtreeShrink, the second at the node the first returned.
C15_Witness ==
    /\ last.op = "remove"
    /\ Count(last.trace, "shrink") >= 2
    /\ Cardinality(linked) >= 4

\* The "rotate" events of the call made last.
RotateEvents ==
    {last.trace[i] : i \in {j \in 1..Len(last.trace) :
                               last.trace[j][1] = "rotate"}}

\* C21: after avlRotate(root, A, sign), with B the child of A on side -sign,
\* E the child of B on side sign and P the parent of A: B is where A was
\* under P (or is the root when P is nil), A is B's child on side sign, E is
\* A's child on side -sign, the parents of A, B and E (if present) are B, P
\* and A, the in-order sequence of the tree is what it was, and no balance
\* field has changed.  This holds of every rotation an insert or a removal
\* makes and of avlRotate called by itself wherever B exists.
C21_RotateRewires ==
    \A r \in RotateEvents :
        LET A == r[2]
            B == r[4]
            E == r[5]
            P == r[6]
        IN  /\ r[7] = B
            /\ r[8] = A
            /\ r[9] = E
            /\ r[10] = B /\ r[11] = P
            /\ E # Nil => r[12] = A
            /\ r[13] = r[14]
            /\ r[15] = r[16]

\* avlRotate has just been called by itself at a node A that had a parent,
\* where B had a child E that went over to A.
C21_Witness ==
    /\ last.op = "rotate"
    /\ \E r \in RotateEvents :
          /\ r[5] # Nil /\ r[6] # Nil
          /\ parent[r[5]] = r[2]
          /\ Len(r[13]) = NumKeys

\* The index in the trace t of the "shrunk" event of the call of
\* avlHandleSubtreeShrink whose "shrink" event is at index i.
ShrunkOf(t, i) ==
    CHOOSE j \in (i + 1)..Len(t) :
        /\ t[j][1] = "shrunk"
        /\ \A k \in (i + 1)..(j - 1) : t[k][1] # "shrunk"

\* Node n has in the fields after what it has in the fields before, but for
\* a child reference to A, which is one to B.
SameBut(before, after, n, A, B) ==
    /\ after.parent[n] = before.parent[n]
    /\ after.balance[n] = before.balance[n]
    /\ after.owner[n] = before.owner[n]
    /\ after.left[n] = IF before.left[n] = A THEN B ELSE before.left[n]
    /\ after.right[n] = IF before.right[n] = A THEN B ELSE before.right[n]

\* C22: in the deletion ascent, when avlHandleSubtreeShrink finds that A has
\* become doubly heavy and that its child B on the heavy side does not lean
\* the other way, it does exactly one single rotation, at A, which brings B
\* up.  When B had balance factor 0: A keeps the balance factor it had, +1 or
\* -1 toward the heavy side, B gets the opposite one, nil is returned and the
\* ascent ends there; the nodes above B are left as they were (the child
\* reference of A's former parent, which the rotation turns from A to B, is
\* the rotation's own).  When B leaned the way A does: both get balance
\* factor 0 and the parent of B is returned, where the ascent goes on if it
\* is not nil.
C22_ShrinkSingleRotation ==
    last.op = "remove" =>
        LET t == last.trace
        IN  \A i \in 1..Len(t) :
               (/\ t[i][1] = "shrink"
                /\ t[i][4] \in {-2, 2}
                /\ t[i][3] * t[i][6] >= 0) =>
                  LET j      == ShrunkOf(t, i)
                      A      == t[i][2]
                      sign   == t[i][3]
                      B      == t[i][5]
                      b      == t[i][6]
                      before == t[i][7]
                      after  == t[j][4]
                      rots   == {k \in (i + 1)..(j - 1) :
                                    t[k][1] \in {"rotate", "double"}}
                  IN  /\ Cardinality(rots) = 1
                      /\ \A k \in rots : /\ t[k][1] = "rotate"
                                         /\ t[k][2] = A
                                         /\ t[k][4] = B
                      /\ before.balance[A] - 1 = sign
                      /\ b = 0 =>
                            /\ after.balance[A] = before.balance[A]
                            /\ after.balance[B] - 1 = -sign
                            /\ t[j][3] = Nil
                            /\ j = Len(t)
                            /\ \A n \in AncestorsOf(after, B) :
                                  SameBut(before, after, n, A, B)
                      /\ b # 0 =>
                            /\ b = sign
                            /\ after.balance[A] - 1 = 0
                            /\ after.balance[B] - 1 = 0
                            /\ t[j][3] = after.parent[B]
                            /\ t[j][3] = Nil => j = Len(t)
                            /\ t[j][3] # Nil =>
                                  /\ j < Len(t)
                                  /\ t[j + 1][1] = "shrink"
                                  /\ t[j + 1][2] = t[j][3]

\* A removal has just rotated once at a node A whose heavy child B was
\* perfectly balanced, below the root: B has a parent, and A leans as before.
C22_Witness ==
    /\ last.op = "remove"
    /\ \E i \in 1..Len(last.trace) :
          /\ last.trace[i][1] = "shrink"
          /\ last.trace[i][4] \in {-2, 2}
          /\ last.trace[i][6] = 0
          /\ parent[last.trace[i][5]] # Nil
          /\ parent[last.trace[i][2]] = last.trace[i][5]
          /\ AvlGetBalanceFactor(Mem, last.trace[i][2]) = last.trace[i][3]

\* The nodes at which the call made last rotated, singly or doubly.
RotatedAt ==
    {last.trace[i][2] : i \in {j \in 1..Len(last.trace) :
                                  last.trace[j][1] \in {"rotate", "double"}}}

\* C23: an insertion rotates at one node at most, while the ascent of a
\* removal goes on after a rotation whenever the rotated subtree has become
\* lower than it was: the call of avlHandleSubtreeShrink that rotated then
\* returns the parent of the subtree's new root, and the next call is at that
\* parent unless there is none.  So one AvlTreeRemove can rotate at more
\* than one level; a removal that rotates at two distinct nodes is reached in
\* the twelve-record tree.
C23_RemoveGoesOnAfterRotation ==
    LET t == last.trace
    IN  /\ last.op = "insert" => Cardinality(RotatedAt) <= 1
        /\ last.op = "remove" =>
              \A i \in 1..Len(t) :
                 (t[i][1] = "shrink" /\ t[i][4] \in {-2, 2}) =>
                    LET j      == ShrunkOf(t, i)
                        A      == t[i][2]
                        before == t[i][7]
                        after  == t[j][4]
                        top    == after.parent[A]
                    IN  /\ \E k \in (i + 1)..(j - 1) :
                              t[k][1] \in {"rotate", "double"} /\ t[k][2] = A
                        /\ top # Nil
                        /\ HeightOf(after, top) < HeightOf(before, A) =>
                              /\ t[j][3] = after.parent[top]
                              /\ t[j][3] # Nil =>
                                    /\ j < Len(t)
                                    /\ t[j + 1][1] = "shrink"
                                    /\ t[j + 1][2] = t[j][3]

\* A removal has just rotated at two distinct nodes, the second above the
\* first.
C23_Witness ==
    /\ last.op = "remove"
    /\ Cardinality(RotatedAt) >= 2
    /\ \E a \in RotatedAt, b \in RotatedAt : b \in AncestorsOf(Mem, a)

\* C24: AvlTreeRemove ends in panic("Node not in tree!") exactly when, on
\* entry, the node has no left child, no right child, no parent and is not
\* the root; when it does, the root reference and every field of every node
\* are what they were; so the removal of a node that is in the tree never
\* panics.  The calls are those on the nodes of the tree and those on nodes
\* out of it that have no children (never inserted, or removed before).
C24_PanicOnlyWhenDetached ==
    [][last'.op \in {"remove", "removeUnlinked"} =>
         LET node == last'.arg
         IN  /\ panicked' <=> /\ left[node] = Nil
                              /\ right[node] = Nil
                              /\ parent[node] = Nil
                              /\ root # node
             /\ panicked' => /\ left' = left
                             /\ right' = right
                             /\ parent' = parent
                             /\ owner' = owner
                             /\ balance' = balance
                             /\ root' = root
             /\ node \in linked => ~panicked'
    ]_vars

\* AvlTreeRemove of a node that was inserted and removed before has just
\* panicked, on a tree that is not empty.
C24_Witness ==
    /\ last.op = "removeUnlinked"
    /\ panicked
    /\ root # Nil
    /\ owner[last.arg] # Nil

\* C25: AvlTreeRemove of a node of the tree writes no field of that node: its
\* left, right, parent, balance and owner are what they were before the call,
\* so it is not marked unlinked (its parent is not itself); and once the call
\* has returned, neither the root reference nor the left, right or parent of
\* any node that remains in the tree refers to it.
C25_RemovedNodeUntouched ==
    [][last'.op = "remove" =>
         LET node == last'.arg
         IN  /\ left'[node] = left[node]
             /\ right'[node] = right[node]
             /\ parent'[node] = parent[node]
             /\ balance'[node] = balance[node]
             /\ owner'[node] = owner[node]
             /\ parent'[node] # node
             /\ root' # node
             /\ linked' = linked \ {node}
             /\ \A n \in linked' : /\ left'[n] # node
                                   /\ right'[n] # node
                                   /\ parent'[n] # node
    ]_vars

\* A node that had two children and a parent has just been removed: it still
\* refers to the three of them, which are in the tree and refer to others.
C25_Witness ==
    /\ last.op = "remove"
    /\ left[last.arg] \in linked
    /\ right[last.arg] \in linked
    /\ parent[last.arg] \in linked
    /\ parent[left[last.arg]] # last.arg
    /\ Cardinality(linked) >= 4

\* C26: a node that was removed can be inserted again as it is, under the
\* same owner or another, whose key may differ: AvlTreeInsert overwrites its
\* left, right, parent, balance and owner, so the call leaves exactly what it
\* leaves for the same node with zeroed fields, and after every insertion and
\* removal the tree is ordered by the keys of the owners, balanced with exact
\* balance factors, consistent in its parent references and without cycle,
\* and holds exactly the nodes inserted and not removed.
C26_ReinsertStaleNode ==
    /\ [](/\ InTree(Mem) = linked
          /\ root # Nil => parent[root] = Nil
          /\ \A n \in InTree(Mem) :
                /\ \A x \in Subtree(Mem, left[n]) :
                      cmpNameNode(owner[x], owner[n]) < 0
                /\ \A x \in Subtree(Mem, right[n]) :
                      cmpNameNode(owner[x], owner[n]) > 0
                /\ AvlGetBalanceFactor(Mem, n) =
                      HeightOf(Mem, right[n]) - HeightOf(Mem, left[n])
                /\ AvlGetBalanceFactor(Mem, n) \in {-1, 0, 1}
                /\ left[n] # Nil => parent[left[n]] = n
                /\ right[n] # Nil => parent[right[n]] = n
                /\ parent[n] = Nil => n = root
                /\ n \notin ReachFrom(Mem, ChildrenOf(Mem, {n}))
                /\ Subtree(Mem, left[n]) \cap Subtree(Mem, right[n]) = {}
                /\ ClimbsToRoot(Mem, n, NumNodes))
    /\ [][(last'.op = "insertAs" /\ last'.ret = Nil) =>
             LET item  == last'.arg[1]
                 own   == last'.arg[2]
                 clean == AvlTreeInsert(Drop(Mem, item), item, own).m
             IN  /\ left' = clean.left
                 /\ right' = clean.right
                 /\ parent' = clean.parent
                 /\ balance' = clean.balance
                 /\ owner' = clean.owner
                 /\ root' = clean.root
                 /\ owner'[item] = own
                 /\ item \in linked'
         ]_vars

\* A node that was removed when it had both children and another owner has
\* just been inserted again as it was, still referring to them, under an
\* owner with another key, into a tree of two nodes, and a rotation followed.
C26_Witness ==
    /\ last.op = "insertAs"
    /\ last.ret = Nil
    /\ last.arg[1] # last.arg[2]
    /\ last.seq[1] # Nil /\ last.seq[2] # Nil
    /\ last.seq[5] \notin {Nil, last.arg[2]}
    /\ Cardinality(linked) = NumReuse
    /\ \E i \in 1..Len(last.trace) : last.trace[i][1] \in {"rotate", "double"}


\* The values a balance field may hold: the balance factors -1, 0, +1, each
\* stored with 1 added.
StoredBalances == {0, 1, 2}

\* C27: at every step of AvlTreeInsert and AvlTreeRemove, not only when they
\* return, the stored balance field of every node is 0, 1 or 2.  Every
\* assignment the last call made to a balance field, taken before its
\* conversion to int8, assigned 0, 1 or 2, so that no assignment stored a
\* factor of +2 or -2 and none overflowed the field; and the field of every
\* node holds 0, 1 or 2 between the calls.
C27_BalanceStoredInRange ==
    /\ \A n \in DOMAIN balance : balance[n] \in StoredBalances
    /\ \A i \in 1..Len(last.writes) : last.writes[i][2] \in StoredBalances

\* A removal has just found a parent whose factor would become +2 or -2, and
\* has assigned balance fields at least twice.
C27_Witness ==
    /\ last.op = "remove"
    /\ Len(last.writes) >= 2
    /\ \E i \in 1..Len(last.trace) :
           /\ last.trace[i][1] = "shrink"
           /\ last.trace[i][4] \in {-2, 2}

============================================================================
